---- MODULE Spec2Model ----
(***************************************************************************)
(* A model of animatediff/sampling.py: the run lifecycle of                *)
(* animatediff_sample (patching of host functions, the global state ADGS,  *)
(* the try/finally teardown), the function sliding_sampling_function that  *)
(* replaces the host's sampling function, and its nested helpers           *)
(* can_concat_cond, calc_cond_uncond_batch and                             *)
(* sliding_calc_cond_uncond_batch (with get_resized_cond and               *)
(* prepare_control_objects).                                               *)
(*                                                                         *)
(* Python values: None of an Optional[int] is the empty sequence <<>> and  *)
(* a value v is <<v>>; None of an object reference is the string "None".   *)
(***************************************************************************)
EXTENDS Integers, Sequences, FiniteSets, TLC

VARIABLES
    refs,   \* the five host function references animatediff_sample patches
    ADGS,   \* the module-level AnimateDiffHelper_GlobalState instance
    pc,     \* position of the (single) caller inside animatediff_sample
    lv,     \* local variables of the running animatediff_sample call
    mm,     \* the motion module object and the model's injection state
    host,   \* the host: its sampler loop, its callback, its call counters
    ssf,    \* what the last call of sliding_sampling_function did
    obs,    \* the caller's view of the current/last run
    cc,     \* one call of calc_cond_uncond_batch: inputs, locals, effects
    pr,     \* one evaluation of can_concat_cond on a pair of requests
    sl,     \* one call of sliding_calc_cond_uncond_batch: inputs, heap, locals
    fm      \* one computation of the multiplier in get_area_and_mult

vars == <<refs, ADGS, pc, lv, mm, host, ssf, obs, cc, pr, sl, fm>>

(***************************************************************************)
(* Bounds of the model                                                     *)
(***************************************************************************)
MaxRuns == 2        \* calls of animatediff_sample in one behaviour
MaxSteps == 2       \* denoising steps of one host sampler run

IntNone == <<>>
Some(v) == <<v>>
OrZero(o) == IF o = IntNone THEN 0 ELSE o[1]   \* python: (o or 0)

(***************************************************************************)
(* AnimateDiffHelper_GlobalState                                           *)
(***************************************************************************)
ADGS_reset(g) ==
    [ start_step         |-> 0,
      last_step          |-> 0,
      current_step       |-> 0,
      total_steps        |-> 0,
      video_length       |-> 0,
      context_frames     |-> IntNone,
      context_stride     |-> IntNone,
      context_overlap    |-> IntNone,
      context_schedule   |-> "None",
      closed_loop        |-> FALSE,
      sync_context_to_pe |-> FALSE,
      sub_idxs           |-> "None",
      motion_module      |-> "None" ]

ADGS_init == ADGS_reset([motion_module |-> "None"])

ADGS_update_with_inject_params(g, params) ==
    [ g EXCEPT !.video_length       = params.video_length,
               !.context_frames     = params.context_length,
               !.context_stride     = params.context_stride,
               !.context_overlap    = params.context_overlap,
               !.context_schedule   = params.context_schedule,
               !.closed_loop        = params.closed_loop,
               !.sync_context_to_pe = params.sync_context_to_pe ]

is_using_sliding_context(g) == g.context_frames # IntNone

(***************************************************************************)
(* The five patchable references                                           *)
(***************************************************************************)
HostRefs ==
    [ forward_timestep_embed |-> "openaimodel.forward_timestep_embed",
      maximum_batch_area     |-> "model_management.maximum_batch_area",
      GroupNorm_forward      |-> "torch.nn.GroupNorm.forward",
      GroupNormAD_forward    |-> "GroupNormAD.forward",
      sampling_function      |-> "comfy_samplers.sampling_function" ]

Unbound ==
    [ forward_timestep_embed |-> "unbound",
      maximum_batch_area     |-> "unbound",
      GroupNorm_forward      |-> "unbound",
      GroupNormAD_forward    |-> "unbound",
      sampling_function      |-> "unbound" ]

\* lines 149-155: "Inject Functions"
InjectFunctions(r, params) ==
    [ forward_timestep_embed |-> "forward_timestep_embed",
      maximum_batch_area     |-> IF params.unlimited_area_hack
                                 THEN "unlimited_batch_area"
                                 ELSE r.maximum_batch_area,
      GroupNorm_forward      |-> "groupnorm_mm_forward",
      GroupNormAD_forward    |-> IF params.apply_mm_groupnorm_hack
                                 THEN "groupnorm_mm_forward"
                                 ELSE r.GroupNormAD_forward,
      sampling_function      |-> "sliding_sampling_function" ]

\* a restoration that forgets GroupNormAD.forward (line 205 missing)
RestoreFunctions_SkipGroupNormAD(r, orig) ==
    [orig EXCEPT !.GroupNormAD_forward = r.GroupNormAD_forward]

\* lines 202-206: "Restoration"
RestoreFunctions(r, orig) ==
    [ forward_timestep_embed |-> orig.forward_timestep_embed,
      maximum_batch_area     |-> orig.maximum_batch_area,
      GroupNorm_forward      |-> orig.GroupNorm_forward,
      GroupNormAD_forward    |-> orig.GroupNormAD_forward,
      sampling_function      |-> orig.sampling_function ]

(***************************************************************************)
(* Inputs of a run                                                         *)
(***************************************************************************)
ContextOptions ==
    { [ context_length |-> IntNone, context_stride |-> IntNone,
        context_overlap |-> IntNone, context_schedule |-> "None",
        closed_loop |-> FALSE, sync_context_to_pe |-> FALSE ],
      [ context_length |-> Some(2), context_stride |-> Some(1),
        context_overlap |-> Some(1), context_schedule |-> "uniform",
        closed_loop |-> TRUE, sync_context_to_pe |-> TRUE ] }

\* the InjectionParams stored on the model (video_length is overwritten, line 132)
InjectionParamsSet ==
    { [ video_length            |-> 0,
        context_length          |-> c.context_length,
        context_stride          |-> c.context_stride,
        context_overlap         |-> c.context_overlap,
        context_schedule        |-> c.context_schedule,
        closed_loop             |-> c.closed_loop,
        sync_context_to_pe      |-> c.sync_context_to_pe,
        unlimited_area_hack     |-> u,
        apply_mm_groupnorm_hack |-> h,
        loras                   |-> l ] :
      c \in ContextOptions, u \in BOOLEAN, h \in BOOLEAN, l \in BOOLEAN }

NoParams == CHOOSE p \in InjectionParamsSet : TRUE

LatentCounts == {2, 3}                       \* latents.size(0)
StartSteps == {IntNone, Some(0), Some(1)}    \* kwargs.get("start_step")
Callbacks == {"None", "host_callback"}       \* kwargs.get("callback", None)

(***************************************************************************)
(* sliding_sampling_function (line 216).  Its body consists of the nested  *)
(* definitions get_area_and_mult, cond_equal_size, can_concat_cond,        *)
(* cond_cat, calc_cond_uncond_batch and sliding_calc_cond_uncond_batch;    *)
(* the statements of lines 553-565 (maximum_batch_area, the dispatch on    *)
(* is_using_sliding_context and the CFG combination) are indented into     *)
(* sliding_calc_cond_uncond_batch, after its return at line 551.  A call   *)
(* therefore executes six def statements and falls off the end.            *)
(***************************************************************************)
sliding_sampling_function(g) ==
    [ called         |-> TRUE,
      context_frames |-> g.context_frames,   \* ADGS as it was at the call
      current_step   |-> g.current_step,
      calc_calls     |-> 0,     \* calls of calc_cond_uncond_batch
      sliding_calls  |-> 0,     \* calls of sliding_calc_cond_uncond_batch
      scheduler_calls|-> 0,     \* calls of the context scheduler
      result         |-> "None" ]

SsfIdle ==
    [ called |-> FALSE, context_frames |-> IntNone, current_step |-> 0,
      calc_calls |-> 0, sliding_calls |-> 0, scheduler_calls |-> 0,
      result |-> "unset" ]

(***************************************************************************)
(* animatediff_sample (lines 121-211)                                      *)
(***************************************************************************)
LvIdle ==
    [ params            |-> NoParams,
      motion_module     |-> "None",     \* line 122
      saved             |-> FALSE,      \* orig_* bound (lines 138-144)
      orig              |-> Unbound,
      callback          |-> "None",     \* kwargs["callback"]
      original_callback |-> "None",
      start_step        |-> IntNone,    \* kwargs.get("start_step")
      latents           |-> 0,
      exc               |-> "none" ]    \* exception in flight

MmIdle ==
    [ loaded |-> FALSE, injected |-> FALSE, scale |-> "default",
      sub_idxs |-> IntNone ]

\* the arguments of the last call of the host's own callback and the value
\* of ADGS.current_step during that call
NoCallbackCall == [ step |-> -1, total_steps |-> 0, current_step |-> 0 ]

HostIdle ==
    [ runs |-> 0, step |-> 0, total |-> 0, phase |-> "denoise",
      callback_calls |-> 0, orig_sample_calls |-> 0,
      last_callback |-> NoCallbackCall ]

\* a call of animatediff_sample on a model without injected params, as its
\* caller and the original sample function see it: the kwargs given and the
\* kwargs passed on, ADGS and the number of calls of orig_comfy_sample
\* before it, what orig_comfy_sample produced and what the call produced
NoSampleCall ==
    [ given |-> [callback |-> "None", start_step |-> IntNone],
      passed |-> [callback |-> "None", start_step |-> IntNone],
      pre_ADGS |-> ADGS_init, pre_calls |-> 0,
      host_result |-> "none", result |-> "none" ]

ObsIdle ==
    [ injected |-> FALSE, outcome |-> "none", exc |-> "none", raised |-> "none",
      pre_refs |-> HostRefs, reset_seen |-> FALSE, populated |-> FALSE,
      all_normal |-> TRUE, not_injected |-> NoSampleCall ]

\* an exception e is raised inside the try block: control goes to finally
Raise(e) ==
    /\ lv' = [lv EXCEPT !.exc = e]
    /\ obs' = [obs EXCEPT !.raised = e]
    /\ pc' = "finally"

\* lines 124-125 with a wrapped callback (line 186) in the kwargs passed on
sample_not_injected_wrapping(r, g, kwargs) ==
    [ refs |-> r, ADGS |-> g,
      kwargs |-> [kwargs EXCEPT !.callback = "ad_callback"],
      orig_sample_calls |-> 1 ]

\* lines 122-125 on a model without injected params: the globals after the
\* call, the kwargs handed to orig_comfy_sample and the number of calls of it
sample_not_injected(r, g, kwargs) ==
    [ refs |-> r, ADGS |-> g, kwargs |-> kwargs, orig_sample_calls |-> 1 ]

\* lines 124-125: no injected params, the original sample function is called
\* and what it returns (or raises) is what the call returns (or raises)
CallNotInjected ==
    /\ pc = "idle"
    /\ host.runs < MaxRuns
    /\ \E ok \in BOOLEAN, cb \in Callbacks, s \in StartSteps :
         LET kwargs == [callback |-> cb, start_step |-> s]
             out == sample_not_injected(refs, ADGS, kwargs)
             host_result == IF ok THEN "samples" ELSE "E_sample"
         IN  /\ refs' = out.refs
             /\ ADGS' = out.ADGS
             /\ host' = [host EXCEPT !.runs = @ + 1,
                                     !.orig_sample_calls = @ + out.orig_sample_calls]
             /\ obs' = [obs EXCEPT
                          !.injected = FALSE,
                          !.outcome = IF ok THEN "returned" ELSE "raised",
                          !.exc = IF ok THEN "none" ELSE "E_sample",
                          !.raised = IF ok THEN "none" ELSE "E_sample",
                          !.pre_refs = refs,
                          !.reset_seen = FALSE, !.populated = FALSE,
                          !.not_injected =
                              [ given |-> kwargs, passed |-> out.kwargs,
                                pre_ADGS |-> ADGS,
                                pre_calls |-> host.orig_sample_calls,
                                host_result |-> host_result,
                                result |-> host_result ]]
    /\ UNCHANGED <<pc, lv, mm, ssf, cc, pr, sl, fm>>

\* line 121-127: a call with a model that has injected params enters the try
CallInjected ==
    /\ pc = "idle"
    /\ host.runs < MaxRuns
    /\ \E p \in InjectionParamsSet, n \in LatentCounts,
          s \in StartSteps, cb \in Callbacks, t \in 1..MaxSteps :
         /\ lv' = [LvIdle EXCEPT !.params = p, !.latents = n,
                                 !.start_step = s, !.callback = cb]
         /\ host' = [host EXCEPT !.runs = @ + 1, !.step = 0, !.total = t,
                                 !.phase = "denoise", !.callback_calls = 0,
                                 !.last_callback = NoCallbackCall]
    /\ obs' = [obs EXCEPT !.injected = TRUE, !.outcome = "running",
                          !.exc = "none", !.raised = "none", !.pre_refs = refs,
                          !.reset_seen = FALSE, !.populated = FALSE,
                          !.not_injected = NoSampleCall]
    /\ ssf' = SsfIdle
    /\ pc' = "get_params"
    /\ UNCHANGED <<refs, ADGS, mm, cc, pr, sl, fm>>

\* lines 129-133: get_injected_mm_params(model).clone(), video_length,
\* inject_params_into_model
GetParams ==
    /\ pc = "get_params"
    /\ \/ /\ lv' = [lv EXCEPT !.params.video_length = lv.latents]
          /\ pc' = "patch"
          /\ UNCHANGED obs
       \/ Raise("E_get_params")
    /\ UNCHANGED <<refs, ADGS, mm, host, ssf, cc, pr, sl, fm>>

\* lines 135-155: reset ADGS, save the original functions, inject functions
ResetSavePatch ==
    /\ pc = "patch"
    /\ ADGS' = ADGS_reset(ADGS)
    /\ lv' = [lv EXCEPT !.saved = TRUE, !.orig = refs]
    /\ refs' = InjectFunctions(refs, lv.params)
    /\ obs' = [obs EXCEPT !.reset_seen = TRUE]
    /\ pc' = "load"
    /\ UNCHANGED <<mm, host, ssf, cc, pr, sl, fm>>

\* line 159: load_motion_module
LoadMotionModule ==
    /\ pc = "load"
    /\ \/ /\ lv' = [lv EXCEPT !.motion_module = "mm"]
          /\ mm' = [mm EXCEPT !.loaded = TRUE]
          /\ pc' = "inject"
          /\ UNCHANGED obs
       \/ Raise("E_load_motion_module") /\ UNCHANGED mm
    /\ UNCHANGED <<refs, ADGS, host, ssf, cc, pr, sl, fm>>

\* line 161: inject_motion_module
InjectMotionModule ==
    /\ pc = "inject"
    /\ \/ /\ mm' = [mm EXCEPT !.injected = TRUE]
          /\ pc' = "schedule"
          /\ UNCHANGED <<lv, obs>>
       \/ Raise("E_inject_motion_module") /\ UNCHANGED mm
    /\ UNCHANGED <<refs, ADGS, host, ssf, cc, pr, sl, fm>>

\* lines 164-166: model.model.register_schedule
RegisterSchedule ==
    /\ pc = "schedule"
    /\ \/ pc' = "scale" /\ UNCHANGED <<lv, obs>>
       \/ Raise("E_register_schedule")
    /\ UNCHANGED <<refs, ADGS, mm, host, ssf, cc, pr, sl, fm>>

\* line 169: motion_module.set_scale_multiplier
SetScaleMultiplier ==
    /\ pc = "scale"
    /\ \/ /\ mm' = [mm EXCEPT !.scale = "set"]
          /\ pc' = "populate"
          /\ UNCHANGED <<lv, obs>>
       \/ Raise("E_set_scale_multiplier") /\ UNCHANGED mm
    /\ UNCHANGED <<refs, ADGS, host, ssf, cc, pr, sl, fm>>

\* lines 172-186: populate ADGS, wrap the callback
Populate ==
    /\ pc = "populate"
    /\ ADGS' = [ ADGS_update_with_inject_params(
                     [ADGS EXCEPT !.motion_module = lv.motion_module], lv.params)
                 EXCEPT !.start_step = OrZero(lv.start_step),
                        !.current_step = OrZero(lv.start_step),
                        !.last_step = 0 ]
    /\ lv' = [lv EXCEPT !.original_callback = lv.callback,
                        !.callback = "ad_callback"]
    /\ obs' = [obs EXCEPT !.populated = obs.reset_seen]
    /\ pc' = "sampling"
    /\ UNCHANGED <<refs, mm, host, ssf, cc, pr, sl, fm>>

\* ad_callback that stores the index of the finished step
ad_callback_step_index(g, step) == [g EXCEPT !.current_step = g.start_step + step]

\* lines 180-184: ad_callback(step, x0, x, total_steps)
ad_callback(g, step) == [g EXCEPT !.current_step = g.start_step + step + 1]

\* line 188: the wrapped host sampler; one denoising step calls the function
\* comfy_samplers.sampling_function currently refers to
HostDenoise ==
    /\ pc = "sampling"
    /\ host.phase = "denoise"
    /\ host.step < host.total
    /\ ssf' = IF refs.sampling_function = "sliding_sampling_function"
              THEN sliding_sampling_function(ADGS)
              ELSE ssf
    /\ host' = [host EXCEPT !.phase = "callback"]
    /\ UNCHANGED <<refs, ADGS, pc, lv, mm, obs, cc, pr, sl, fm>>

\* the host sampler reports the finished step to kwargs["callback"] as
\* callback(step, x0, x, total_steps); ad_callback passes the call on to
\* original_callback (lines 181-182) and then updates ADGS (line 184)
HostCallback ==
    /\ pc = "sampling"
    /\ host.phase = "callback"
    /\ LET passed_on == lv.callback = "host_callback"
                           \/ (lv.callback = "ad_callback"
                               /\ lv.original_callback # "None")
       IN  host' = [host EXCEPT
                      !.phase = "denoise",
                      !.step = @ + 1,
                      !.callback_calls = IF passed_on THEN @ + 1 ELSE @,
                      !.last_callback =
                          IF passed_on
                          THEN [ step |-> host.step, total_steps |-> host.total,
                                 current_step |-> ADGS.current_step ]
                          ELSE @]
    /\ ADGS' = IF lv.callback = "ad_callback"
               THEN ad_callback(ADGS, host.step) ELSE ADGS
    /\ UNCHANGED <<refs, pc, lv, mm, ssf, obs, cc, pr, sl, fm>>

\* the host sampler raises (at any point of its loop)
HostRaise ==
    /\ pc = "sampling"
    /\ Raise("E_sample")
    /\ UNCHANGED <<refs, ADGS, mm, host, ssf, cc, pr, sl, fm>>

\* the host sampler returns its result
HostReturn ==
    /\ pc = "sampling"
    /\ host.phase = "denoise"
    /\ host.step = host.total
    /\ pc' = "finally"
    /\ UNCHANGED <<refs, ADGS, lv, mm, host, ssf, obs, cc, pr, sl, fm>>

\* lines 189-211: the finally block.  eject_motion_module(model) runs, then
\* line 193 dereferences the local motion_module: while it is still None
\* (line 122) that raises AttributeError, which leaves the block at once and
\* replaces the exception in flight.
Finally ==
    /\ pc = "finally"
    /\ IF lv.motion_module = "None"
       THEN /\ mm' = [mm EXCEPT !.injected = FALSE]
            /\ obs' = [obs EXCEPT !.outcome = "raised",
                                  !.exc = "AttributeError",
                                  !.all_normal = FALSE]
            /\ UNCHANGED <<refs, ADGS>>
       ELSE /\ mm' = [ injected |-> FALSE, scale |-> "default",
                       sub_idxs |-> IntNone,
                       loaded |-> mm.loaded /\ ~lv.params.loras ]
            /\ refs' = RestoreFunctions(refs, lv.orig)
            /\ ADGS' = ADGS_reset(ADGS)
            /\ obs' = [obs EXCEPT
                         !.outcome = IF lv.exc = "none" THEN "returned" ELSE "raised",
                         !.exc = lv.exc,
                         !.all_normal = obs.all_normal /\ lv.exc = "none"]
    /\ lv' = LvIdle
    /\ pc' = "idle"
    /\ UNCHANGED <<host, ssf, cc, pr, sl, fm>>

CcIdle == [ phase |-> "unused" ]
PrIdle == [ phase |-> "unused" ]
SlIdle == [ phase |-> "unused" ]
FmIdle == [ phase |-> "unused" ]

Init ==
    /\ refs = HostRefs
    /\ ADGS = ADGS_init
    /\ pc = "idle"
    /\ lv = LvIdle
    /\ mm = MmIdle
    /\ host = HostIdle
    /\ ssf = SsfIdle
    /\ obs = ObsIdle
    /\ cc = CcIdle
    /\ pr = PrIdle
    /\ sl = SlIdle
    /\ fm = FmIdle

Next ==
    \/ CallNotInjected
    \/ CallInjected
    \/ GetParams
    \/ ResetSavePatch
    \/ LoadMotionModule
    \/ InjectMotionModule
    \/ RegisterSchedule
    \/ SetScaleMultiplier
    \/ Populate
    \/ HostDenoise
    \/ HostCallback
    \/ HostRaise
    \/ HostReturn
    \/ Finally

Spec == Init /\ [][Next]_vars

(***************************************************************************)
(* Helpers nested in sliding_sampling_function (lines 217-337).            *)
(* A shape is <<batch, channels, height, width>>; an area is               *)
(* <<height, width, y, x>>; python indexes are 0-based and kept so.        *)
(***************************************************************************)
COND == 0
UNCOND == 1

Min2(a, b) == IF a < b THEN a ELSE b
Max2(a, b) == IF a > b THEN a ELSE b
\* len(range(n)[a:b]) for 0 <= a, 0 <= b
SliceLen(a, b, n) == Max2(0, Min2(b, n) - Min2(a, n))
\* s[:k]
Prefix(s, k) == SubSeq(s, 1, Min2(k, Len(s)))
Reverse(s) == [i \in 1..Len(s) |-> s[Len(s) + 1 - i]]
\* list.pop(i) leaves s without its element of (0-based) index i
RemoveAt(s, i) == SubSeq(s, 1, i) \o SubSeq(s, i + 2, Len(s))

\* get_area_and_mult with >= in the comparison of line 223
get_area_and_mult_ge(conds, x_shape, timestep_in, id) ==
    IF conds.timestep_start # IntNone /\ timestep_in >= conds.timestep_start[1]
    THEN <<>>
    ELSE IF conds.timestep_end # IntNone /\ timestep_in < conds.timestep_end[1]
    THEN <<>>
    ELSE LET area == IF conds.area # <<>> THEN conds.area
                     ELSE <<x_shape[3], x_shape[4], 0, 0>>
             input_x == << x_shape[1], x_shape[2],
                           SliceLen(area[3], area[1] + area[3], x_shape[3]),
                           SliceLen(area[4], area[2] + area[4], x_shape[4]) >>
         IN << [ input_x |-> input_x,
                 mult    |-> [ tensor |-> id, strength |-> conds.strength ],
                 c       |-> [ dict |-> id, kv |-> conds.model_conds ],
                 area    |-> area,
                 control |-> conds.control,
                 patches |-> IF conds.gligen THEN Some(id) ELSE IntNone ] >>

\* lines 217-287: None (<<>>) when the request is gated out at this timestep,
\* else <<p>>, p = (input_x, mult, conditionning, area, control, patches).
\* id names the objects the call creates (the conditionning dict of line 265,
\* the patches dict of line 277, the mult tensor).
get_area_and_mult(conds, x_shape, timestep_in, id) ==
    IF conds.timestep_start # IntNone /\ timestep_in > conds.timestep_start[1]
    THEN <<>>
    ELSE IF conds.timestep_end # IntNone /\ timestep_in < conds.timestep_end[1]
    THEN <<>>
    ELSE LET area == IF conds.area # <<>> THEN conds.area
                     ELSE <<x_shape[3], x_shape[4], 0, 0>>
             input_x == << x_shape[1], x_shape[2],
                           SliceLen(area[3], area[1] + area[3], x_shape[3]),
                           SliceLen(area[4], area[2] + area[4], x_shape[4]) >>
         IN << [ input_x |-> input_x,
                 mult    |-> [ tensor |-> id, strength |-> conds.strength ],
                 c       |-> [ dict |-> id, kv |-> conds.model_conds ],
                 area    |-> area,
                 control |-> conds.control,
                 patches |-> IF conds.gligen THEN Some(id) ELSE IntNone ] >>

\* cond_equal_size without the identity shortcut of lines 290-291
cond_equal_size_NoIdentity(c1, c2, rel) ==
    IF DOMAIN c1.kv # DOMAIN c2.kv THEN FALSE
    ELSE \A k \in DOMAIN c1.kv : <<c1.kv[k], c2.kv[k]>> \in rel

\* lines 289-297; rel is the relation v.can_concat(w) of the conditioning
\* values, <<v, w>> \in rel meaning v.can_concat(w) returns True
cond_equal_size(c1, c2, rel) ==
    IF c1.dict = c2.dict THEN TRUE
    ELSE IF DOMAIN c1.kv # DOMAIN c2.kv THEN FALSE
    ELSE \A k \in DOMAIN c1.kv : <<c1.kv[k], c2.kv[k]>> \in rel

\* can_concat_cond without the comparison of the controls (lines 304-308)
can_concat_cond_ignore_control(c1, c2, rel) ==
    IF c1.input_x # c2.input_x THEN FALSE
    ELSE IF (c1.patches = IntNone) # (c2.patches = IntNone) THEN FALSE
    ELSE IF c1.patches # IntNone /\ c1.patches # c2.patches THEN FALSE
    ELSE cond_equal_size(c1.c, c2.c, rel)

\* lines 299-317
can_concat_cond(c1, c2, rel) ==
    IF c1.input_x # c2.input_x THEN FALSE
    ELSE IF (c1.control = "None") # (c2.control = "None") THEN FALSE
    ELSE IF c1.control # "None" /\ c1.control # c2.control THEN FALSE
    ELSE IF (c1.patches = IntNone) # (c2.patches = IntNone) THEN FALSE
    ELSE IF c1.patches # IntNone /\ c1.patches # c2.patches THEN FALSE
    ELSE cond_equal_size(c1.c, c2.c, rel)

\* lines 367-372: the indexes of to_run that can be batched with first, reversed
to_batch_temp_of(to_run, rel) ==
    LET first == to_run[1]
        idx == [i \in 1..Len(to_run) |-> i - 1]
        Test(x_t) == can_concat_cond(to_run[x_t + 1].p, first.p, rel)
    IN  Reverse(SelectSeq(idx, Test))

\* the loop of lines 375-379 from divisor i on; line 373 when none fits
RECURSIVE batch_amount_from(_, _, _, _)
batch_amount_from(i, to_batch_temp, first_shape, max_total_area) ==
    IF i > Len(to_batch_temp) THEN Prefix(to_batch_temp, 1)
    ELSE LET batch_amount == Prefix(to_batch_temp, Len(to_batch_temp) \div i)
         IN  IF Len(batch_amount) * first_shape[1] * first_shape[3] * first_shape[4]
                    < max_total_area
             THEN batch_amount
             ELSE batch_amount_from(i + 1, to_batch_temp, first_shape, max_total_area)

\* a selection that compares with <= instead of < at line 377
RECURSIVE batch_amount_from_le(_, _, _, _)
batch_amount_from_le(i, to_batch_temp, first_shape, max_total_area) ==
    IF i > Len(to_batch_temp) THEN Prefix(to_batch_temp, 1)
    ELSE LET batch_amount == Prefix(to_batch_temp, Len(to_batch_temp) \div i)
         IN  IF Len(batch_amount) * first_shape[1] * first_shape[3] * first_shape[4]
                    <= max_total_area
             THEN batch_amount
             ELSE batch_amount_from_le(i + 1, to_batch_temp, first_shape, max_total_area)

select_to_batch_le(to_batch_temp, first_shape, max_total_area) ==
    batch_amount_from_le(1, to_batch_temp, first_shape, max_total_area)

\* a selection that starts from an empty batch at line 373
select_to_batch_empty(to_batch_temp, first_shape, max_total_area) ==
    IF \E i \in 1..Len(to_batch_temp) :
          (Len(to_batch_temp) \div i) * first_shape[1] * first_shape[3] * first_shape[4]
              < max_total_area
    THEN batch_amount_from(1, to_batch_temp, first_shape, max_total_area)
    ELSE <<>>

\* lines 373-379: to_batch
select_to_batch(to_batch_temp, first_shape, max_total_area) ==
    batch_amount_from(1, to_batch_temp, first_shape, max_total_area)

\* lines 388-397: to_run after popping the indexes of to_batch in turn
RECURSIVE pop_all(_, _)
pop_all(to_run, to_batch) ==
    IF to_batch = <<>> THEN to_run
    ELSE pop_all(RemoveAt(to_run, to_batch[1]), Tail(to_batch))

\* lines 388-397: the requests popped, in the order they are popped
RECURSIVE popped(_, _)
popped(to_run, to_batch) ==
    IF to_batch = <<>> THEN <<>>
    ELSE <<to_run[to_batch[1] + 1]>>
             \o popped(RemoveAt(to_run, to_batch[1]), Tail(to_batch))

(***************************************************************************)
(* Inputs of one call of calc_cond_uncond_batch                            *)
(***************************************************************************)
MaxReq == 2         \* requests (cond + uncond) of a call, any mix of entries
MaxGroup == 6       \* requests of a call whose entries are all alike

\* v.can_concat(w) of the host's conditioning values: equal shapes
SameShape == { <<"A", "A">>, <<"B", "B">> }

Plain ==
    [ timestep_start |-> IntNone, timestep_end |-> IntNone, area |-> <<>>,
      strength |-> IntNone, control |-> "None", gligen |-> FALSE,
      model_conds |-> [k \in {"c_crossattn"} |-> "A"] ]

\* the conditioning entries a call is given: a plain one, one with
\* timestep_end 1, one with timestep_start 1, a tile, one with a control, one
\* with gligen, one whose conditioning value cannot be concatenated with the
\* others'
Entries ==
    { Plain,
      [Plain EXCEPT !.timestep_end = Some(1)],
      [Plain EXCEPT !.timestep_start = Some(1)],
      [Plain EXCEPT !.area = <<1, 2, 1, 0>>],
      [Plain EXCEPT !.control = "control_1"],
      [Plain EXCEPT !.gligen = TRUE],
      [Plain EXCEPT !.model_conds = [k \in {"c_crossattn"} |-> "B"]] }

XShapes == { <<1, 1, 2, 2>> }        \* x_in.shape
Timesteps == {0, 1, 2}               \* timestep[0]
MaxTotalAreas == {3, 4, 9}           \* max_total_area, mixed calls
GroupTotalAreas == {3, 4, 5, 8, 9, 12, 13, 16, 17, 25, 29}  \* calls of like entries

CcLocals ==
    [ to_run |-> <<>>, requests |-> <<>>,
      to_batch_temp |-> <<>>, to_batch |-> <<>>,
      ids |-> <<>>, cond_or_uncond |-> <<>>, area |-> <<>>,
      input_x_bound |-> FALSE, mult_bound |-> FALSE, o |-> 0,
      batches |-> <<>>, calls |-> <<>>, adds |-> <<>>,
      result |-> "unset", exc |-> "none" ]

CcInput(cond, uncond_none, uncond, x_shape, timestep, max_total_area, wrapper) ==
    [ phase |-> "input", cond |-> cond, uncond_none |-> uncond_none,
      uncond |-> uncond, x_shape |-> x_shape, timestep |-> timestep,
      max_total_area |-> max_total_area, wrapper |-> wrapper,
      can_concat |-> SameShape, l |-> CcLocals ]

\* a call on at most MaxReq entries of any kind
MixedInput(c) ==
    \E k \in 0..MaxReq, j \in 0..MaxReq :
       /\ k + j <= MaxReq
       /\ \E cond \in [1..k -> Entries], uncond \in [1..j -> Entries],
             n \in BOOLEAN, x \in XShapes, t \in Timesteps,
             a \in MaxTotalAreas, w \in BOOLEAN :
            /\ n => j = 0
            /\ c = CcInput(cond, n, uncond, x, t, a, w)

\* a call on n <= MaxGroup plain entries, the first k of them conditioned
GroupInput(c) ==
    \E n \in 1..MaxGroup, k \in 0..MaxGroup, x \in XShapes, a \in GroupTotalAreas :
       /\ k <= n
       /\ c = CcInput([i \in 1..k |-> Plain], FALSE, [i \in 1..(n - k) |-> Plain],
                      x, 1, a, FALSE)

(***************************************************************************)
(* calc_cond_uncond_batch (lines 339-456)                                  *)
(***************************************************************************)
\* lines 349-362: the work list
build_to_run(cond, uncond_none, uncond, x_shape, timestep) ==
    LET all == cond \o (IF uncond_none THEN <<>> ELSE uncond)
        req(i) == [ id   |-> i,
                    kind |-> IF i <= Len(cond) THEN COND ELSE UNCOND,
                    got  |-> get_area_and_mult(all[i], x_shape, timestep, i) ]
        Kept(r) == r.got # <<>>
    IN  [ i \in 1..Len(SelectSeq([i \in 1..Len(all) |-> req(i)], Kept)) |->
            LET r == SelectSeq([j \in 1..Len(all) |-> req(j)], Kept)[i]
            IN  [ id |-> r.id, kind |-> r.kind, p |-> r.got[1] ] ]

\* line 431 without its del statement
del_input_x_missing(bound) == bound

\* line 431: del input_x
del_input_x(bound) == FALSE

\* the four += statements of lines 435-437 and 444-448 for one chunk
scatter_adds(kind, id, area) ==
    IF kind = COND
    THEN << [buf |-> "out_cond", req |-> id, area |-> area],
            [buf |-> "out_count", req |-> id, area |-> area] >>
    ELSE << [buf |-> "out_uncond", req |-> id, area |-> area],
            [buf |-> "out_uncond_count", req |-> id, area |-> area] >>

RECURSIVE scatter_all(_, _, _, _)
scatter_all(o, kinds, ids, areas) ==
    IF o > Len(kinds) THEN <<>>
    ELSE scatter_adds(kinds[o], ids[o], areas[o]) \o scatter_all(o + 1, kinds, ids, areas)

CcBegin ==
    /\ cc.phase = "input"
    /\ LET tr == build_to_run(cc.cond, cc.uncond_none, cc.uncond, cc.x_shape, cc.timestep)
       IN  cc' = [cc EXCEPT !.phase = "while", !.l.to_run = tr,
                            !.l.requests = [i \in 1..Len(tr) |-> tr[i].id]]
    /\ UNCHANGED <<refs, ADGS, pc, lv, mm, host, ssf, obs, pr, sl, fm>>

\* lines 364-431: one batch is selected, popped and run
CcBatch ==
    /\ cc.phase = "while"
    /\ Len(cc.l.to_run) > 0
    /\ LET to_run == cc.l.to_run
           first_shape == to_run[1].p.input_x
           tbt == to_batch_temp_of(to_run, cc.can_concat)
           to_batch == select_to_batch(tbt, first_shape, cc.max_total_area)
           got == popped(to_run, to_batch)
           ids == [i \in 1..Len(got) |-> got[i].id]
           kinds == [i \in 1..Len(got) |-> got[i].kind]
           call == [ fn |-> IF cc.wrapper THEN "model_function_wrapper"
                            ELSE "model_function",
                     line |-> IF cc.wrapper THEN 426 ELSE 430,
                     input |-> ids, cond_or_uncond |-> kinds,
                     control |-> IF got = <<>> THEN "None"
                                 ELSE got[Len(got)].p.control,
                     patches |-> IF got = <<>> THEN IntNone
                                 ELSE got[Len(got)].p.patches ]
       IN  cc' = [cc EXCEPT
                    !.phase = IF got = <<>> THEN "returned" ELSE "scatter",
                    !.l.to_run = pop_all(to_run, to_batch),
                    !.l.to_batch_temp = tbt,
                    !.l.to_batch = to_batch,
                    !.l.ids = ids,
                    !.l.cond_or_uncond = kinds,
                    !.l.area = [i \in 1..Len(got) |-> got[i].p.area],
                    !.l.input_x_bound = del_input_x(TRUE),
                    !.l.mult_bound = TRUE,
                    !.l.o = 0,
                    !.l.batches = Append(@, [ ids |-> ids,
                                              group |-> Len(tbt),
                                              first_shape |-> first_shape,
                                              before |-> Len(to_run),
                                              after |-> Len(to_run) - Len(got) ]),
                    !.l.calls = Append(@, call),
                    !.l.result = IF got = <<>> THEN "(out_cond, out_uncond)" ELSE @]
    /\ UNCHANGED <<refs, ADGS, pc, lv, mm, host, ssf, obs, pr, sl, fm>>

\* lines 433-456: one iteration (index o) of the loop of line 433, with the
\* loop of line 442 nested in it, and, after the last one, the division and
\* the return of lines 451-456.  Reading or deleting a local that a del has
\* unbound raises UnboundLocalError.
CcScatter ==
    /\ cc.phase = "scatter"
    /\ LET l == cc.l
           o == l.o + 1
           kind == l.cond_or_uncond[o]
           Raised(c) == [c EXCEPT !.phase = "raised", !.l.exc = "UnboundLocalError"]
           \* lines 434-439
           a == IF kind = COND
                THEN IF l.mult_bound
                     THEN [cc EXCEPT !.l.adds =
                              @ \o scatter_adds(COND, l.ids[o], l.area[o])]
                     ELSE Raised(cc)
                ELSE IF l.input_x_bound
                     THEN [cc EXCEPT !.l.calls = Append(@,
                              [ fn |-> "model_function", line |-> 439,
                                input |-> l.ids, cond_or_uncond |-> l.cond_or_uncond,
                                control |-> "None", patches |-> IntNone ])]
                     ELSE Raised(cc)
           \* line 440
           b == IF a.phase = "raised" THEN a
                ELSE IF a.l.input_x_bound
                     THEN [a EXCEPT !.l.input_x_bound = FALSE]
                     ELSE Raised(a)
           \* lines 442-449
           c == IF b.phase = "raised" THEN b
                ELSE [b EXCEPT !.l.adds = @ \o scatter_all(1, l.cond_or_uncond,
                                                           l.ids, l.area),
                               !.l.mult_bound = FALSE,
                               !.l.o = o]
           \* lines 451-456
           d == IF c.phase = "raised" \/ c.l.o < Len(l.ids) THEN c
                ELSE [c EXCEPT !.phase = "returned",
                               !.l.result = "(out_cond, out_uncond)"]
       IN  cc' = d
    /\ UNCHANGED <<refs, ADGS, pc, lv, mm, host, ssf, obs, pr, sl, fm>>

\* line 364 with to_run empty: the function body ends without a return
CcFallOff ==
    /\ cc.phase = "while"
    /\ Len(cc.l.to_run) = 0
    /\ cc' = [cc EXCEPT !.phase = "returned", !.l.result = "None"]
    /\ UNCHANGED <<refs, ADGS, pc, lv, mm, host, ssf, obs, pr, sl, fm>>

InitBatch ==
    /\ refs = HostRefs
    /\ ADGS = ADGS_init
    /\ pc = "idle"
    /\ lv = LvIdle
    /\ mm = MmIdle
    /\ host = HostIdle
    /\ ssf = SsfIdle
    /\ obs = ObsIdle
    /\ MixedInput(cc) \/ GroupInput(cc)
    /\ pr = PrIdle
    /\ sl = SlIdle
    /\ fm = FmIdle

NextBatch ==
    \/ CcBegin
    \/ CcBatch
    \/ CcScatter
    \/ CcFallOff

SpecBatch == InitBatch /\ [][NextBatch]_vars

(***************************************************************************)
(* can_concat_cond on the requests get_area_and_mult builds for two        *)
(* conditioning entries, under any relation can_concat of the values       *)
(***************************************************************************)
CondValues == {"A", "B"}

ModelConds ==
    { [k \in {"c_crossattn"} |-> "A"],
      [k \in {"c_crossattn"} |-> "B"],
      [k \in {"c_crossattn", "c_concat"} |-> "A"],
      [k \in {"c_crossattn", "c_concat"} |-> IF k = "c_concat" THEN "B" ELSE "A"],
      [k \in {"c_crossattn", "c_concat"} |-> IF k = "c_concat" THEN "A" ELSE "B"] }

PairEntries ==
    { [Plain EXCEPT !.area = a, !.control = c, !.gligen = g, !.model_conds = m] :
        a \in {<<>>, <<1, 2, 1, 0>>},
        c \in {"None", "control_1", "control_2"},
        g \in BOOLEAN, m \in ModelConds }

\* every relation v.can_concat(w) on the conditioning values
CanConcatRelations == SUBSET (CondValues \X CondValues)

InitConcat ==
    /\ refs = HostRefs
    /\ ADGS = ADGS_init
    /\ pc = "idle"
    /\ lv = LvIdle
    /\ mm = MmIdle
    /\ host = HostIdle
    /\ ssf = SsfIdle
    /\ obs = ObsIdle
    /\ cc = CcIdle
    /\ \E e1 \in PairEntries, e2 \in PairEntries, x \in XShapes :
          pr = [ phase |-> "input",
                 a |-> get_area_and_mult(e1, x, 0, 1)[1],
                 b |-> get_area_and_mult(e2, x, 0, 2)[1],
                 rel |-> {}, ab |-> FALSE, ba |-> FALSE, aa |-> FALSE, bb |-> FALSE ]
    /\ sl = SlIdle
    /\ fm = FmIdle

\* can_concat_cond is evaluated on the pair, both ways, and on each request
\* with itself
PrEvaluate ==
    /\ pr.phase = "input"
    /\ \E rel \in CanConcatRelations :
          pr' = [pr EXCEPT !.phase = "done", !.rel = rel,
                           !.ab = can_concat_cond(pr.a, pr.b, rel),
                           !.ba = can_concat_cond(pr.b, pr.a, rel),
                           !.aa = can_concat_cond(pr.a, pr.a, rel),
                           !.bb = can_concat_cond(pr.b, pr.b, rel)]
    /\ UNCHANGED <<refs, ADGS, pc, lv, mm, host, ssf, obs, cc, sl, fm>>

NextConcat == PrEvaluate

SpecConcat == InitConcat /\ [][NextConcat]_vars

(***************************************************************************)
(* sliding_calc_cond_uncond_batch (lines 460-551).                         *)
(* Python objects of a call: a tensor, an object wrapping a tensor in its  *)
(* cond attribute and an opaque value are values with an identity (id);    *)
(* dicts and control objects are mutable and live in sl.heap and sl.ctl,   *)
(* which map an identity to the object's content.                          *)
(***************************************************************************)
MaxFrames == 3      \* ADGS.video_length
MaxRepeat == 2      \* x.size(0) // ADGS.video_length
MaxWindow == 3      \* length of a window of arbitrary indexes

Value(kind, id, rows, inner, val) ==
    [ kind |-> kind, id |-> id, rows |-> rows, inner |-> inner, val |-> val ]
\* a tensor of n rows; each row is named after the tensor and its index
TensorV(id, n) == Value("tensor", id, [i \in 1..n |-> 100 * id + i - 1], 0, 0)
\* an object whose attribute cond is the tensor t (comfy/conds.py)
WrappedV(id, t) == Value("wrapped", id, t.rows, t.id, 0)
DictV(id) == Value("dict", id, <<>>, 0, 0)
ControlV(id) == Value("control", id, <<>>, 0, 0)
OpaqueV(id, val) == Value("opaque", id, <<>>, 0, val)

\* the keys of dict d in iteration order
KeysIn(d, order) ==
    LET Present(k) == k \in DOMAIN d IN SelectSeq(order, Present)
KeyOrder == <<"pooled_output", "control", "model_conds", "strength", "timestep_end">>
NestedKeyOrder == <<"c_crossattn", "y", "scale">>

\* full_idxs with the window length as the offset of a repeat
full_idxs_window_offset(ctx_idxs, axes_factor, video_length) ==
    [ j \in 1..(axes_factor * Len(ctx_idxs)) |->
        Len(ctx_idxs) * ((j - 1) \div Len(ctx_idxs))
            + ctx_idxs[((j - 1) % Len(ctx_idxs)) + 1] ]

\* lines 532-535: full_idxs
full_idxs_of(ctx_idxs, axes_factor, video_length) ==
    [ j \in 1..(axes_factor * Len(ctx_idxs)) |->
        video_length * ((j - 1) \div Len(ctx_idxs))
            + ctx_idxs[((j - 1) % Len(ctx_idxs)) + 1] ]

\* a slice rows[first : first + len(full_idxs)] in place of the gather
index_rows_slice(rows, full_idxs) ==
    IF full_idxs = <<>> THEN <<>>
    ELSE SubSeq(rows, full_idxs[1] + 1,
                Min2(full_idxs[1] + Len(full_idxs), Len(rows)))

\* lines 492, 512, 516: tensor[full_idxs]
index_rows(rows, full_idxs) ==
    [ j \in 1..Len(full_idxs) |-> rows[full_idxs[j] + 1] ]

\* no copy: the name is bound to the dict itself
copy_dict_alias(st, id) == [ st |-> st, id |-> id ]

\* lines 483, 507: dict.copy() gives a new dict with the same items
copy_dict(st, id) ==
    [ st |-> [st EXCEPT !.heap = (st.next_id :> st.heap[id]) @@ @,
                        !.next_id = @ + 1],
      id |-> st.next_id ]

\* d[key] = v
put(st, d, key, v) == [st EXCEPT !.heap[d][key] = v]

has_sub_idxs_always(ctl, c) == TRUE

\* line 499: hasattr(control_item, "sub_idxs")
has_sub_idxs(ctl, c) == "sub_idxs" \in ctl[c].attrs

\* prepare_control_objects without the recursion of lines 472-473
prepare_control_objects_head_only(ctl, c, full_idxs, g) ==
    [ctl EXCEPT ![c].attrs = @ \cup {"sub_idxs", "full_latent_length",
                                       "context_length"},
                ![c].sub_idxs = Some(full_idxs),
                ![c].full_latent_length = Some(g.video_length),
                ![c].context_length = g.context_frames]

\* lines 471-476
RECURSIVE prepare_control_objects(_, _, _, _)
prepare_control_objects(ctl, c, full_idxs, g) ==
    LET ctl1 == IF ctl[c].previous_controlnet # 0
                THEN prepare_control_objects(ctl, ctl[c].previous_controlnet,
                                             full_idxs, g)
                ELSE ctl
    IN  [ctl1 EXCEPT ![c].attrs = @ \cup {"sub_idxs", "full_latent_length",
                                            "context_length"},
                     ![c].sub_idxs = Some(full_idxs),
                     ![c].full_latent_length = Some(g.video_length),
                     ![c].context_length = g.context_frames]

\* lines 509-516: the items of the copied nested dict n
RECURSIVE resize_nested(_, _, _, _, _)
resize_nested(st, n, keys, full_idxs, x_size) ==
    IF keys = <<>> THEN st
    ELSE LET k == Head(keys)
             v == st.heap[n][k]
             st1 == IF v.kind = "tensor" /\ Len(v.rows) = x_size
                    THEN [ put(st, n, k,
                               Value("tensor", st.next_id,
                                     index_rows(v.rows, full_idxs), 0, 0))
                           EXCEPT !.next_id = @ + 1 ]
                    ELSE IF v.kind = "wrapped" /\ Len(v.rows) = x_size
                    THEN [ put(st, n, k,
                               Value("wrapped", st.next_id + 1,
                                     index_rows(v.rows, full_idxs),
                                     st.next_id, 0))
                           EXCEPT !.next_id = @ + 2 ]
                    ELSE st
         IN  resize_nested(st1, n, Tail(keys), full_idxs, x_size)

\* lines 485-521: the keys of actual_cond (dict src), written to its copy r
RECURSIVE resize_keys(_, _, _, _, _, _, _)
resize_keys(st, src, r, keys, full_idxs, x_size, g) ==
    IF keys = <<>> \/ st.exc # "none" THEN st
    ELSE LET key == Head(keys)
             cond_item == st.heap[src][key]
             st1 ==
               IF cond_item.kind = "tensor"
               THEN IF Len(cond_item.rows) = x_size
                    THEN [ put(st, r, key,
                               Value("tensor", st.next_id,
                                     index_rows(cond_item.rows, full_idxs), 0, 0))
                           EXCEPT !.next_id = @ + 1 ]
                    ELSE put(st, r, key, cond_item)
               ELSE IF key = "control"
               THEN IF cond_item.kind = "control" /\ has_sub_idxs(st.ctl, cond_item.id)
                    THEN put([st EXCEPT !.ctl = prepare_control_objects(
                                            @, cond_item.id, full_idxs, g)],
                             r, key, cond_item)
                    ELSE [st EXCEPT !.exc = "ValueError"]
               ELSE IF cond_item.kind = "dict"
               THEN LET cp == copy_dict(st, cond_item.id)
                        st2 == resize_nested(cp.st, cp.id,
                                   KeysIn(cp.st.heap[cp.id], NestedKeyOrder),
                                   full_idxs, x_size)
                    IN  put(st2, r, key, DictV(cp.id))
               ELSE put(st, r, key, cond_item)
         IN  resize_keys(st1, src, r, Tail(keys), full_idxs, x_size, g)

\* lines 482-523 from entry i of cond_in on; out is resized_cond
RECURSIVE get_resized_from(_, _, _, _, _, _, _)
get_resized_from(st, cond_in, i, out, full_idxs, x_size, g) ==
    IF i > Len(cond_in) \/ st.exc # "none" THEN [ st |-> st, out |-> out ]
    ELSE LET cp == copy_dict(st, cond_in[i])
             st1 == resize_keys(cp.st, cond_in[i], cp.id,
                                KeysIn(st.heap[cond_in[i]], KeyOrder),
                                full_idxs, x_size, g)
         IN  get_resized_from(st1, cond_in, i + 1, Append(out, cp.id),
                              full_idxs, x_size, g)

\* lines 478-523: get_resized_cond(cond_in, full_idxs), on the objects of st,
\* with x.size(0) = x_size and ADGS = g
get_resized_cond(st, cond_in, full_idxs, x_size, g) ==
    get_resized_from(st, cond_in, 1, <<>>, full_idxs, x_size, g)

(***************************************************************************)
(* The context scheduler get_context_scheduler returns (animatediff/       *)
(* context.py): windows of context_frames frames that advance by           *)
(* context_frames - context_overlap; the last window is cut at the end of  *)
(* the video or, under closed_loop, wraps around to frame 0.               *)
(***************************************************************************)
RECURSIVE uniform_windows_from(_, _, _, _, _)
uniform_windows_from(s, video_length, context_frames, step, closed_loop) ==
    LET w == [j \in 1..context_frames |-> s + j - 1]
        InVideo(i) == i < video_length
    IN  IF s + context_frames >= video_length
        THEN IF closed_loop
             THEN << [j \in 1..context_frames |-> (s + j - 1) % video_length] >>
             ELSE << SelectSeq(w, InVideo) >>
        ELSE <<w>> \o uniform_windows_from(s + step, video_length,
                                            context_frames, step, closed_loop)

context_scheduler(current_step, total_steps, video_length, context_frames, context_stride, context_overlap, closed_loop) ==
    IF context_frames >= video_length
    THEN << [j \in 1..video_length |-> j - 1] >>
    ELSE uniform_windows_from(0, video_length, context_frames,
                              context_frames - context_overlap, closed_loop)

(***************************************************************************)
(* Inputs of one call of sliding_calc_cond_uncond_batch                    *)
(***************************************************************************)
\* a control object: the attributes it has, their values, its chain link
\* (0 is None)
AdvancedControl(prev) ==
    [ attrs |-> {"sub_idxs", "full_latent_length", "context_length"},
      sub_idxs |-> IntNone, full_latent_length |-> IntNone,
      context_length |-> IntNone, previous_controlnet |-> prev ]
PlainControl(prev) ==
    [ attrs |-> {}, sub_idxs |-> IntNone, full_latent_length |-> IntNone,
      context_length |-> IntNone, previous_controlnet |-> prev ]

\* which control objects the entries refer to: none; one advanced control
\* shared by cond and uncond; a chain of two on cond and another control on
\* uncond; an advanced control chained to a plain one; a plain control on
\* cond; a plain control on uncond
ControlKinds == {"none", "adv", "chain", "chain_plain", "plain", "unc_plain"}

NoItems == [k \in {} |-> 0]
Item(present, key, v) == IF present THEN key :> v ELSE NoItems

\* cond = [dict 1], uncond = [dict 3]; a tensor has x_size rows when it is
\* per-frame and x_size + 1 rows when it is not; a gated entry carries a
\* timestep_end above the timestep of the call
SlidingWorld(x_size, top_pf, nested_pf, ck, gated) ==
    LET rows(pf) == IF pf THEN x_size ELSE x_size + 1
        c1 == IF ck \in {"adv", "chain", "chain_plain"} THEN 1
              ELSE IF ck = "plain" THEN 4 ELSE 0
        c3 == IF ck \in {"adv", "chain_plain"} THEN 1
              ELSE IF ck = "chain" THEN 3
              ELSE IF ck = "unc_plain" THEN 4 ELSE 0
    IN  [ heap |->
            (1 :> ( ("pooled_output" :> TensorV(11, rows(top_pf)))
                    @@ ("model_conds" :> DictV(2))
                    @@ ("strength" :> OpaqueV(16, 1))
                    @@ Item(c1 # 0, "control", ControlV(c1))
                    @@ Item(gated, "timestep_end", OpaqueV(17, 5)) ))
            @@ (2 :> ( ("c_crossattn" :> WrappedV(12, TensorV(13, rows(nested_pf))))
                       @@ ("y" :> TensorV(14, rows(top_pf)))
                       @@ ("scale" :> OpaqueV(15, 1)) ))
            @@ (3 :> ( ("pooled_output" :> TensorV(21, rows(nested_pf)))
                       @@ ("model_conds" :> DictV(4))
                       @@ Item(c3 # 0, "control", ControlV(c3))
                       @@ Item(gated, "timestep_end", OpaqueV(27, 5)) ))
            @@ (4 :> ("c_crossattn" :> WrappedV(22, TensorV(23, x_size + 1)))),
          ctl |->
            (1 :> AdvancedControl(IF ck = "chain" THEN 2
                                  ELSE IF ck = "chain_plain" THEN 4 ELSE 0))
            @@ (2 :> AdvancedControl(0))
            @@ (3 :> AdvancedControl(0))
            @@ (4 :> PlainControl(0)),
          cond |-> <<1>>,
          uncond |-> <<3>> ]

FirstFreshId == 100

SlInput(world, uncond_none, x_size) ==
    [ phase |-> "input", x_size |-> x_size, timestep |-> 1,
      cond |-> world.cond, uncond_none |-> uncond_none, uncond |-> world.uncond,
      heap |-> world.heap, ctl |-> world.ctl, next_id |-> FirstFreshId,
      heap0 |-> world.heap, ctl0 |-> world.ctl,
      axes_factor |-> 0, windows |-> <<>>, w |-> 0,
      ctx_idxs |-> <<>>, full_idxs |-> <<>>,
      sub_cond |-> <<>>, sub_uncond |-> <<>>,
      out_count_final |-> <<>>, accumulated |-> <<>>,
      calls |-> <<>>, divided |-> FALSE, exc |-> "none", result |-> "unset" ]

\* ADGS as lines 172-176 leave it for a run with a sliding context
ADGS_populated(video_length, context_frames, context_overlap, closed_loop, sync_context_to_pe, current_step) ==
    [ ADGS_init EXCEPT !.video_length = video_length,
                       !.context_frames = Some(context_frames),
                       !.context_stride = Some(1),
                       !.context_overlap = Some(context_overlap),
                       !.context_schedule = "uniform",
                       !.closed_loop = closed_loop,
                       !.sync_context_to_pe = sync_context_to_pe,
                       !.current_step = current_step,
                       !.motion_module = "mm" ]

\* the conditioning entry get_area_and_mult reads in the dict d
conds_of(d) ==
    [ Plain EXCEPT
        !.timestep_end = IF "timestep_end" \in DOMAIN d
                         THEN Some(d["timestep_end"].val) ELSE IntNone,
        !.control = IF "control" \in DOMAIN d THEN "control" ELSE "None" ]

\* lines 339-456, a whole call: with no request to run the while loop is
\* skipped and the body ends without a return; else the first batch is run
\* and the first iteration of the loop of line 433 raises at line 439 or 440
calc_cond_uncond_batch(cond, uncond_none, uncond, x_shape, timestep) ==
    IF build_to_run(cond, uncond_none, uncond, x_shape, timestep) = <<>>
    THEN [ exc |-> "none", result |-> "None" ]
    ELSE [ exc |-> "UnboundLocalError", result |-> "unset" ]

\* lines 462-469 and the call of the scheduler at line 526
SlBegin ==
    /\ sl.phase = "input"
    /\ LET windows == context_scheduler(
                          ADGS.current_step, ADGS.total_steps, ADGS.video_length,
                          ADGS.context_frames[1], ADGS.context_stride[1],
                          ADGS.context_overlap[1], ADGS.closed_loop)
       IN  sl' = [sl EXCEPT
                    !.axes_factor = sl.x_size \div ADGS.video_length,
                    !.out_count_final = [f \in 1..sl.x_size |-> 0],
                    !.accumulated = [f \in 1..sl.x_size |-> <<>>],
                    !.windows = windows,
                    !.phase = IF windows = <<>> THEN "returned" ELSE "loop",
                    !.divided = (windows = <<>>),
                    !.result = IF windows = <<>>
                               THEN "(cond_final, uncond_final)" ELSE @]
    /\ UNCHANGED <<refs, ADGS, pc, lv, mm, host, ssf, obs, cc, pr, fm>>

\* lines 526-538: the next window, the motion module's sub_idxs, full_idxs
SlExpand ==
    /\ sl.phase = "loop"
    /\ LET ctx_idxs == sl.windows[sl.w + 1]
       IN  /\ sl' = [sl EXCEPT
                       !.w = @ + 1,
                       !.ctx_idxs = ctx_idxs,
                       !.full_idxs = full_idxs_of(ctx_idxs, sl.axes_factor,
                                                  ADGS.video_length),
                       !.sub_cond = <<>>, !.sub_uncond = <<>>,
                       !.phase = "expanded"]
           /\ IF ADGS.sync_context_to_pe
              THEN /\ ADGS' = [ADGS EXCEPT !.sub_idxs = ctx_idxs]
                   /\ mm' = [mm EXCEPT !.sub_idxs = Some(ctx_idxs)]
              ELSE UNCHANGED <<ADGS, mm>>
    /\ UNCHANGED <<refs, pc, lv, host, ssf, obs, cc, pr, fm>>

\* line 539: sub_cond = get_resized_cond(cond, full_idxs)
SlProjectCond ==
    /\ sl.phase = "expanded"
    /\ LET st == [ heap |-> sl.heap, ctl |-> sl.ctl,
                   next_id |-> sl.next_id, exc |-> "none" ]
           r == get_resized_cond(st, sl.cond, sl.full_idxs, sl.x_size, ADGS)
       IN  sl' = [sl EXCEPT
                    !.heap = r.st.heap, !.ctl = r.st.ctl,
                    !.next_id = r.st.next_id,
                    !.sub_cond = r.out,
                    !.exc = r.st.exc,
                    !.phase = IF r.st.exc # "none" THEN "raised" ELSE "cond_done"]
    /\ UNCHANGED <<refs, ADGS, pc, lv, mm, host, ssf, obs, cc, pr, fm>>

\* line 540: sub_uncond = get_resized_cond(uncond, full_idxs), or None
SlProjectUncond ==
    /\ sl.phase = "cond_done"
    /\ LET st == [ heap |-> sl.heap, ctl |-> sl.ctl,
                   next_id |-> sl.next_id, exc |-> "none" ]
           r == IF sl.uncond_none THEN [ st |-> st, out |-> <<>> ]
                ELSE get_resized_cond(st, sl.uncond, sl.full_idxs, sl.x_size, ADGS)
       IN  sl' = [sl EXCEPT
                    !.heap = r.st.heap, !.ctl = r.st.ctl,
                    !.next_id = r.st.next_id,
                    !.sub_uncond = r.out,
                    !.exc = r.st.exc,
                    !.phase = IF r.st.exc # "none" THEN "raised" ELSE "projected"]
    /\ UNCHANGED <<refs, ADGS, pc, lv, mm, host, ssf, obs, cc, pr, fm>>

\* lines 542-551: calc_cond_uncond_batch on the window, the unpacking of its
\* result, the accumulation and, after the last window, the division and
\* the return.  Unpacking None raises TypeError.
SlCalc ==
    /\ sl.phase = "projected"
    /\ LET sub_x_shape == <<Len(sl.full_idxs), 1, 2, 2>>
           conds(ids) == [i \in 1..Len(ids) |-> conds_of(sl.heap[ids[i]])]
           r == calc_cond_uncond_batch(conds(sl.sub_cond), sl.uncond_none,
                                       conds(sl.sub_uncond), sub_x_shape,
                                       sl.timestep)
           call == [ window |-> sl.w, full_idxs |-> sl.full_idxs,
                     sub_cond |-> sl.sub_cond, sub_uncond |-> sl.sub_uncond,
                     ctl |-> sl.ctl, heap |-> sl.heap ]
           called == [sl EXCEPT !.calls = Append(@, call)]
           Used(f) == \E j \in DOMAIN sl.full_idxs : sl.full_idxs[j] = f - 1
           \* lines 544-546
           added == [called EXCEPT
                       !.out_count_final =
                           [f \in 1..sl.x_size |->
                               IF Used(f) THEN sl.out_count_final[f] + 1
                               ELSE sl.out_count_final[f]],
                       !.accumulated =
                           [f \in 1..sl.x_size |->
                               IF Used(f) THEN Append(sl.accumulated[f], sl.w)
                               ELSE sl.accumulated[f]],
                       !.phase = "loop"]
       IN  sl' = IF r.exc # "none"
                 THEN [called EXCEPT !.phase = "raised", !.exc = r.exc]
                 ELSE IF r.result = "None"
                 THEN [called EXCEPT !.phase = "raised", !.exc = "TypeError"]
                 ELSE IF sl.w < Len(sl.windows) THEN added
                 ELSE [added EXCEPT !.phase = "returned", !.divided = TRUE,
                                    !.result = "(cond_final, uncond_final)"]
    /\ UNCHANGED <<refs, ADGS, pc, lv, mm, host, ssf, obs, cc, pr, fm>>

\* a call made during a run with a sliding context, on a video of up to
\* MaxFrames frames repeated up to MaxRepeat times along the batch axis, or
\* on 16 frames with windows of 8 frames that overlap by 2
InitSliding ==
    /\ fm = FmIdle
    /\ refs = HostRefs
    /\ pc = "idle"
    /\ lv = LvIdle
    /\ mm = MmIdle
    /\ host = HostIdle
    /\ ssf = SsfIdle
    /\ obs = ObsIdle
    /\ cc = CcIdle
    /\ pr = PrIdle
    /\ \/ \E vl \in 1..MaxFrames, cf \in 1..MaxFrames, ov \in 0..MaxFrames,
             k \in 1..MaxRepeat, cl \in BOOLEAN, sync \in BOOLEAN,
             nested \in BOOLEAN, ck \in ControlKinds, gated \in BOOLEAN,
             un \in BOOLEAN :
            /\ ov < cf
            /\ ADGS = ADGS_populated(vl, cf, ov, cl, sync, 0)
            /\ sl = SlInput(SlidingWorld(k * vl, TRUE, nested, ck, gated),
                            un, k * vl)
       \/ \E ck \in {"none", "chain"} :
            /\ ADGS = ADGS_populated(16, 8, 2, FALSE, FALSE, 0)
            /\ sl = SlInput(SlidingWorld(16, TRUE, TRUE, ck, FALSE), FALSE, 16)

NextSliding ==
    \/ SlBegin
    \/ SlExpand
    \/ SlProjectCond
    \/ SlProjectUncond
    \/ SlCalc

SpecSliding == InitSliding /\ [][NextSliding]_vars

(***************************************************************************)
(* Lines 532-540 on an arbitrary window: a list of up to MaxWindow frame   *)
(* indexes of the video, in any order, repeats included, or the window     *)
(* 0, 1, 2, 6, 7 of a video of 16 frames                                   *)
(***************************************************************************)
SlWindowInput(world, uncond_none, x_size, axes_factor, window) ==
    [ SlInput(world, uncond_none, x_size) EXCEPT
        !.phase = "loop",
        !.axes_factor = axes_factor,
        !.windows = <<window>>,
        !.out_count_final = [f \in 1..x_size |-> 0],
        !.accumulated = [f \in 1..x_size |-> <<>>] ]

InitProject ==
    /\ fm = FmIdle
    /\ refs = HostRefs
    /\ pc = "idle"
    /\ lv = LvIdle
    /\ mm = MmIdle
    /\ host = HostIdle
    /\ ssf = SsfIdle
    /\ obs = ObsIdle
    /\ cc = CcIdle
    /\ pr = PrIdle
    /\ \/ \E vl \in 1..MaxFrames, n \in 1..MaxWindow, k \in 1..MaxRepeat,
             top \in BOOLEAN, nested \in BOOLEAN, ck \in {"none", "adv"},
             un \in BOOLEAN :
            \E window \in [1..n -> 0..(vl - 1)] :
               /\ ADGS = ADGS_populated(vl, n, 0, FALSE, FALSE, 0)
               /\ sl = SlWindowInput(SlidingWorld(k * vl, top, nested, ck, FALSE),
                                     un, k * vl, k, window)
       \/ /\ ADGS = ADGS_populated(16, 5, 0, FALSE, FALSE, 0)
          /\ sl = SlWindowInput(SlidingWorld(16, TRUE, TRUE, "adv", FALSE),
                                FALSE, 16, 1, <<0, 1, 2, 6, 7>>)

NextProject ==
    \/ SlExpand
    \/ SlProjectCond
    \/ SlProjectUncond

SpecProject == InitProject /\ [][NextProject]_vars

(***************************************************************************)
(* The multiplier of get_area_and_mult (lines 234-263).  mult has the      *)
(* shape of input_x; every statement treats the batch and channel axes     *)
(* alike, so a cell is <<row, column>> of the tile, 0-based.  A value is   *)
(* the fraction num/den: the factors (1.0 / rr) * (t + 1) are multiples of *)
(* 1/8.                                                                    *)
(***************************************************************************)
MaxCanvas == 10     \* height and width of the largest latent canvas

rr == 8

Frac(n, d) == [ num |-> n, den |-> d ]
\* v * (n / d)
times(v, n, d) == [ num |-> v.num * n, den |-> v.den * d ]
SameValue(a, b) == a.num * b.den = b.num * a.den

\* the indexes python's [start:stop] selects on an axis of size n: a
\* negative bound counts from the end, and both bounds are clamped to 0..n
slice_idx(start, stop, n) ==
    LET norm(i) == IF i < 0 THEN Max2(i + n, 0) ELSE Min2(i, n)
    IN  { i \in 0..(n - 1) : norm(start) <= i /\ i < norm(stop) }

\* lines 218, 229-230
area_of(conds, x_shape) ==
    IF conds.area # <<>> THEN conds.area ELSE <<x_shape[3], x_shape[4], 0, 0>>

\* input_x.shape[2:] of line 234
tile_shape(area, x_shape) ==
    << Cardinality(slice_idx(area[3], area[1] + area[3], x_shape[3])),
       Cardinality(slice_idx(area[4], area[2] + area[4], x_shape[4])) >>

\* conds['mask'][0, y, x] of a mask of the size of the canvas
mask_at(mask, x_shape, y, x) == 1 + y * x_shape[4] + x

\* lines 219, 231-232 and 235-248: mult = mask * strength, the mask being
\* the given one cut to the tile and scaled by mask_strength, or all ones
mult_init(conds, x_shape) ==
    LET area == area_of(conds, x_shape)
        shape == tile_shape(area, x_shape)
        strength == IF conds.strength # IntNone THEN conds.strength[1] ELSE 1
        mask_strength == IF conds.mask_strength # IntNone
                         THEN conds.mask_strength[1] ELSE 1
    IN  [ cell \in (0..(shape[1] - 1)) \X (0..(shape[2] - 1)) |->
            IF conds.mask # "None"
            THEN Frac(mask_at(conds.mask, x_shape, area[3] + cell[1],
                              area[4] + cell[2]) * mask_strength * strength, 1)
            ELSE Frac(strength, 1) ]

\* one statement mult[..., start:stop, ...] *= ((1.0 / rr) * (t + 1)) on the
\* rows (axis 1) or the columns (axis 2), n being the size of that axis
scale_slice(mult, axis, start, stop, n, t) ==
    LET sel == slice_idx(start, stop, n)
    IN  [ cell \in DOMAIN mult |->
            IF cell[axis] \in sel THEN times(mult[cell], t + 1, rr)
            ELSE mult[cell] ]

\* the loops of lines 253-254 and 259-260 from t on
RECURSIVE ramp_leading(_, _, _, _)
ramp_leading(mult, axis, n, t) ==
    IF t >= rr THEN mult
    ELSE ramp_leading(scale_slice(mult, axis, t, 1 + t, n, t), axis, n, t + 1)

\* the loops of lines 256-257 and 262-263 from t on; extent is area[0] or
\* area[1]
RECURSIVE ramp_trailing(_, _, _, _, _)
ramp_trailing(mult, axis, n, extent, t) ==
    IF t >= rr THEN mult
    ELSE ramp_trailing(scale_slice(mult, axis, extent - 1 - t, extent - t, n, t),
                       axis, n, extent, t + 1)

MultConds(area, strength, mask, mask_strength) ==
    [ area |-> area, strength |-> strength, mask |-> mask,
      mask_strength |-> mask_strength ]

FmInput(conds, x_shape) ==
    [ phase |-> "input", conds |-> conds, x_shape |-> x_shape,
      area |-> area_of(conds, x_shape),
      shape |-> tile_shape(area_of(conds, x_shape), x_shape),
      mult |-> <<>>, ramps |-> {} ]

\* lines 234-250
FmMask ==
    /\ fm.phase = "input"
    /\ fm' = [fm EXCEPT !.mult = mult_init(fm.conds, fm.x_shape),
                        !.phase = IF fm.conds.mask # "None" THEN "done"
                                  ELSE "top"]
    /\ UNCHANGED <<refs, ADGS, pc, lv, mm, host, ssf, obs, cc, pr, sl>>

\* lines 252-254
FmTop ==
    /\ fm.phase = "top"
    /\ fm' = IF fm.area[3] # 0
             THEN [fm EXCEPT !.mult = ramp_leading(@, 1, fm.shape[1], 0),
                             !.ramps = @ \cup {"top"}, !.phase = "bottom"]
             ELSE [fm EXCEPT !.phase = "bottom"]
    /\ UNCHANGED <<refs, ADGS, pc, lv, mm, host, ssf, obs, cc, pr, sl>>

\* lines 255-257
FmBottom ==
    /\ fm.phase = "bottom"
    /\ fm' = IF fm.area[1] + fm.area[3] < fm.x_shape[3]
             THEN [fm EXCEPT !.mult = ramp_trailing(@, 1, fm.shape[1],
                                                    fm.area[1], 0),
                             !.ramps = @ \cup {"bottom"}, !.phase = "left"]
             ELSE [fm EXCEPT !.phase = "left"]
    /\ UNCHANGED <<refs, ADGS, pc, lv, mm, host, ssf, obs, cc, pr, sl>>

\* lines 258-260
FmLeft ==
    /\ fm.phase = "left"
    /\ fm' = IF fm.area[4] # 0
             THEN [fm EXCEPT !.mult = ramp_leading(@, 2, fm.shape[2], 0),
                             !.ramps = @ \cup {"left"}, !.phase = "right"]
             ELSE [fm EXCEPT !.phase = "right"]
    /\ UNCHANGED <<refs, ADGS, pc, lv, mm, host, ssf, obs, cc, pr, sl>>

\* lines 261-263
FmRight ==
    /\ fm.phase = "right"
    /\ fm' = IF fm.area[2] + fm.area[4] < fm.x_shape[4]
             THEN [fm EXCEPT !.mult = ramp_trailing(@, 2, fm.shape[2],
                                                    fm.area[2], 0),
                             !.ramps = @ \cup {"right"}, !.phase = "done"]
             ELSE [fm EXCEPT !.phase = "done"]
    /\ UNCHANGED <<refs, ADGS, pc, lv, mm, host, ssf, obs, cc, pr, sl>>

\* the canvases: tall and narrow, wide and low, and small
Canvases == { <<1, 1, MaxCanvas, 3>>, <<1, 1, 3, MaxCanvas>>, <<1, 1, 3, 3>> }
Strengths == { IntNone, Some(1), Some(2) }

\* a request on the whole canvas or on a tile that lies inside it, without a
\* mask or with one
InitMult ==
    /\ refs = HostRefs
    /\ ADGS = ADGS_init
    /\ pc = "idle"
    /\ lv = LvIdle
    /\ mm = MmIdle
    /\ host = HostIdle
    /\ ssf = SsfIdle
    /\ obs = ObsIdle
    /\ cc = CcIdle
    /\ pr = PrIdle
    /\ sl = SlIdle
    /\ \E x_shape \in Canvases, s \in Strengths, mask \in {"None", "mask"},
          ms \in {IntNone, Some(3)} :
         /\ mask = "None" => ms = IntNone
         /\ \/ fm = FmInput(MultConds(<<>>, s, mask, ms), x_shape)
            \/ \E h \in 1..x_shape[3], w \in 1..x_shape[4],
                  y \in 0..(x_shape[3] - 1), x \in 0..(x_shape[4] - 1) :
                 /\ y + h <= x_shape[3]
                 /\ x + w <= x_shape[4]
                 /\ fm = FmInput(MultConds(<<h, w, y, x>>, s, mask, ms), x_shape)

NextMult ==
    \/ FmMask
    \/ FmTop
    \/ FmBottom
    \/ FmLeft
    \/ FmRight

SpecMult == InitMult /\ [][NextMult]_vars

(***************************************************************************)
(* Claims about the run lifecycle (specification Spec)                     *)
(***************************************************************************)

\* C1: when a run on an injected model ends with an exception, the five
\* patched references equal the values they had before the run and ADGS
\* equals its reset defaults.
C1_FailedRunRestoresGlobals ==
    (obs.injected /\ obs.outcome = "raised")
        => (refs = obs.pre_refs /\ ADGS = ADGS_init)

\* C2: when a run fails, the exception that reaches the caller is the one
\* raised inside the try block.
C2_OriginalErrorReachesCaller ==
    (obs.injected /\ obs.outcome = "raised") => obs.exc = obs.raised

\* C3: after any sequence of runs on injected models that all completed
\* normally the five references are the host's originals and ADGS is at its
\* reset defaults; while the wrapped sampler runs, ADGS was reset before it
\* was populated and holds the injection params, video_length being the
\* number of latents passed in.
C3_NormalRunsRestoreGlobals ==
    /\ (pc = "idle" /\ obs.all_normal)
          => (refs = HostRefs /\ ADGS = ADGS_init)
    /\ (pc = "sampling")
          => /\ obs.reset_seen /\ obs.populated
             /\ ADGS.video_length = lv.latents
             /\ ADGS.context_frames = lv.params.context_length
             /\ ADGS.context_stride = lv.params.context_stride
             /\ ADGS.context_overlap = lv.params.context_overlap
             /\ ADGS.context_schedule = lv.params.context_schedule
             /\ ADGS.closed_loop = lv.params.closed_loop
             /\ ADGS.sync_context_to_pe = lv.params.sync_context_to_pe
             /\ ADGS.motion_module = "mm"
             /\ ADGS.start_step = OrZero(lv.start_step)

\* two normal runs in a row, the second with both optional patches applied
\* and the patched sampling function called, have ended
C3_Witness ==
    /\ pc = "idle" /\ host.runs = 2 /\ obs.all_normal
    /\ obs.injected /\ obs.outcome = "returned"
    /\ obs.reset_seen /\ obs.populated /\ ssf.called
    /\ ssf.context_frames # IntNone

\* C4: with ADGS.context_frames unset, a call of sliding_sampling_function
\* calls calc_cond_uncond_batch exactly once, never calls the context
\* scheduler, and returns the CFG combination of that call's two outputs.
C4_NoContextDelegatesOnce ==
    (ssf.called /\ ssf.context_frames = IntNone)
        => /\ ssf.calc_calls = 1
           /\ ssf.scheduler_calls = 0
           /\ ssf.result = "uncond + (cond - uncond) * cond_scale"

(***************************************************************************)
(* Claims about calc_cond_uncond_batch (specification SpecBatch)           *)
(***************************************************************************)
CcEnded == cc.phase \in {"returned", "raised"}
Range(f) == { f[i] : i \in DOMAIN f }
\* the area line 377 charges for each request of a batch
RequestArea(shape) == shape[1] * shape[3] * shape[4]
\* the batches a request was put in
BatchesOf(id) == { b \in DOMAIN cc.l.batches : id \in Range(cc.l.batches[b].ids) }
\* the += statements executed on buffer buf for request id
AddsOf(buf, id) ==
    { i \in DOMAIN cc.l.adds : cc.l.adds[i].buf = buf /\ cc.l.adds[i].req = id }

\* C5: the call ends only with to_run empty, every request that is not
\* time-gated having been put in exactly one batch and run.
C5_EveryRequestRunBeforeReturn ==
    CcEnded =>
        /\ cc.l.to_run = <<>>
        /\ \A id \in Range(cc.l.requests) :
              /\ Cardinality(BatchesOf(id)) = 1
              /\ \E k \in DOMAIN cc.l.calls : id \in Range(cc.l.calls[k].input)

C6_BatchInvariant ==
    \A b \in DOMAIN cc.l.batches :
       LET B == cc.l.batches[b] IN
       /\ Len(B.ids) >= 1
       /\ B.after < B.before
       /\ cc.max_total_area < RequestArea(B.first_shape)
             => /\ Len(B.ids) = 1
                /\ b \in DOMAIN cc.l.calls
                /\ cc.l.calls[b].input = B.ids

\* C6: every batch selected from a non-empty to_run holds at least one
\* request, so to_run strictly shrinks in each iteration (the variant that
\* bounds the loop), for every max_total_area; with max_total_area below the
\* area of one request the batch holds one request and is run.
C6_BatchNeverEmptyLoopEnds ==
    cc.phase # "unused" =>
        /\ C6_BatchInvariant
        /\ cc.phase = "scatter" => cc.l.o < Len(cc.l.ids)
        /\ cc.phase \in {"input", "while", "scatter", "returned", "raised"}

\* a batch of one request was formed and run under a budget below its area
C6_Witness ==
    /\ CcEnded
    /\ Len(cc.l.requests) >= 2
    /\ Len(cc.l.batches) = 1
    /\ Len(cc.l.batches[1].ids) = 1
    /\ cc.l.batches[1].group = 2
    /\ cc.max_total_area < RequestArea(cc.l.batches[1].first_shape)
    /\ Len(cc.l.calls) = 1

RECURSIVE HalvingSize(_, _, _)
HalvingSize(n, a, max) ==
    IF n * a < max THEN n
    ELSE IF n <= 1 THEN 1
    ELSE HalvingSize(n \div 2, a, max)

QuotientSize(n, a, max) ==
    LET S == { k \in { n \div i : i \in 1..n } : k * a < max }
    IN  IF S = {} THEN 1 ELSE CHOOSE k \in S : \A j \in S : j <= k

\* C7 as stated: the batch holds the largest of n, n//2, n//4, ..., 1 whose
\* total area is strictly below max_total_area, and 1 when none is.
C7_HalvingBatchSize ==
    \A b \in DOMAIN cc.l.batches :
       LET B == cc.l.batches[b] IN
       Len(B.ids) = HalvingSize(B.group, RequestArea(B.first_shape), cc.max_total_area)

\* C7 amended: the batch holds the largest of the quotients n//1, n//2,
\* n//3, ..., n//n whose total area is strictly below max_total_area, and 1
\* when none is.
C7_QuotientBatchSize ==
    \A b \in DOMAIN cc.l.batches :
       LET B == cc.l.batches[b] IN
       Len(B.ids) = QuotientSize(B.group, RequestArea(B.first_shape), cc.max_total_area)

\* six mergeable requests under a budget that two of them fit and three do
\* not: the batch holds 6 // 3 = 2 requests
C7_Witness ==
    /\ cc.phase = "scatter"
    /\ cc.l.batches[1].group = 6
    /\ Len(cc.l.batches[1].ids) = 2
    /\ 2 * RequestArea(cc.l.batches[1].first_shape) < cc.max_total_area
    /\ 3 * RequestArea(cc.l.batches[1].first_shape) >= cc.max_total_area

\* C8: the denoising function (model_function, or model_function_wrapper
\* when supplied) is invoked exactly once per batch formed, on that batch,
\* whatever mix of conditioned and unconditioned requests it holds.
C8_OneInvocationPerBatch ==
    cc.phase # "unused" =>
        /\ Len(cc.l.calls) = Len(cc.l.batches)
        /\ \A b \in DOMAIN cc.l.batches :
              /\ cc.l.calls[b].input = cc.l.batches[b].ids
              /\ cc.l.calls[b].fn = IF cc.wrapper THEN "model_function_wrapper"
                                    ELSE "model_function"

\* the call is over; its batch merged an unconditioned request (popped
\* first) with a conditioned one, and the function was invoked once
C8_Witness ==
    /\ CcEnded
    /\ Len(cc.l.batches) = 1
    /\ cc.l.cond_or_uncond = <<UNCOND, COND>>
    /\ Len(cc.l.calls) = 1
    /\ cc.l.calls[1].input = cc.l.ids

\* C9: for every request run in a batch, chunk * mult is added exactly once
\* to the buffer of its own branch and mult exactly once to that branch's
\* count buffer, and nothing is added to the other branch's buffers.
C9_EachChunkScatteredOnce ==
    CcEnded =>
        \A b \in DOMAIN cc.l.batches :
           \A o \in DOMAIN cc.l.batches[b].ids :
              LET id == cc.l.batches[b].ids[o]
                  conditioned == \E i \in DOMAIN cc.cond : i = id
                  own == IF conditioned THEN "out_cond" ELSE "out_uncond"
                  own_count == IF conditioned THEN "out_count" ELSE "out_uncond_count"
                  other == IF conditioned THEN "out_uncond" ELSE "out_cond"
                  other_count == IF conditioned THEN "out_uncond_count" ELSE "out_count"
              IN  /\ Cardinality(AddsOf(own, id)) = 1
                  /\ Cardinality(AddsOf(own_count, id)) = 1
                  /\ AddsOf(other, id) = {}
                  /\ AddsOf(other_count, id) = {}

(***************************************************************************)
(* Claims about can_concat_cond (specification SpecConcat)                 *)
(***************************************************************************)
IsSymmetric(rel) == \A vw \in rel : <<vw[2], vw[1]>> \in rel

\* C10 as stated: can_concat_cond is reflexive and symmetric, for every
\* relation can_concat the conditioning values may implement.
C10_ReflexiveAndSymmetric ==
    pr.phase = "done" => (pr.aa /\ pr.bb /\ pr.ab = pr.ba)

\* C10 amended: can_concat_cond is reflexive for every relation can_concat,
\* and symmetric for every symmetric relation can_concat.
C10_ReflexiveSymmetricIfCanConcatIs ==
    pr.phase = "done" =>
        /\ pr.aa /\ pr.bb
        /\ IsSymmetric(pr.rel) => pr.ab = pr.ba

\* two distinct requests with two conditioning keys each, mergeable both
\* ways under a symmetric relation in which no value can_concat itself
C10_Witness ==
    /\ pr.phase = "done"
    /\ pr.rel = { <<"A", "B">>, <<"B", "A">> }
    /\ DOMAIN pr.a.c.kv = {"c_crossattn", "c_concat"}
    /\ pr.a.control # "None"
    /\ pr.ab /\ pr.ba /\ pr.aa /\ pr.bb

(***************************************************************************)
(* Claims about the time gating of requests (specification SpecBatch)      *)
(***************************************************************************)
\* the entries the call was given that lines 350-362 pass to
\* get_area_and_mult, in the order their ids are numbered
GivenEntries == cc.cond \o (IF cc.uncond_none THEN <<>> ELSE cc.uncond)
\* request id was put in to_run by lines 349-362
WasQueued(id) == id \in Range(cc.l.requests)

\* C11 as stated: a request is skipped exactly when the timestep is outside
\* the half-open range: above timestep_start, or at or below timestep_end
\* (a timestep equal to the start bound is run, one equal to the end bound
\* is skipped).
C11_HalfOpenRangeGating ==
    cc.phase \notin {"unused", "input"} =>
        \A id \in DOMAIN GivenEntries :
           LET e == GivenEntries[id] IN
           ~WasQueued(id) <=>
               \/ e.timestep_start # IntNone /\ cc.timestep > e.timestep_start[1]
               \/ e.timestep_end # IntNone /\ cc.timestep <= e.timestep_end[1]

\* C11 amended: a request is skipped exactly when the timestep is strictly
\* above its timestep_start or strictly below its timestep_end; a timestep
\* equal to either bound is run.
C11_ClosedRangeGating ==
    cc.phase \notin {"unused", "input"} =>
        \A id \in DOMAIN GivenEntries :
           LET e == GivenEntries[id] IN
           ~WasQueued(id) <=>
               \/ e.timestep_start # IntNone /\ cc.timestep > e.timestep_start[1]
               \/ e.timestep_end # IntNone /\ cc.timestep < e.timestep_end[1]

\* at timestep 1 a request with timestep_start 1 and a request with
\* timestep_end 1 were both queued
C11_Witness ==
    /\ cc.phase = "while"
    /\ cc.timestep = 1
    /\ Len(GivenEntries) = 2
    /\ GivenEntries[1].timestep_start = Some(1)
    /\ GivenEntries[2].timestep_end = Some(1)
    /\ WasQueued(1) /\ WasQueued(2)

(***************************************************************************)
(* Claims about sliding_calc_cond_uncond_batch (specification SpecSliding) *)
(***************************************************************************)
SlEnded == sl.phase \in {"returned", "raised"}
\* the windows of the call that contain the frame of batch index f - 1
WindowsContaining(f) ==
    { i \in DOMAIN sl.windows :
        \E j \in DOMAIN sl.windows[i] :
           sl.windows[i][j] = (f - 1) % ADGS.video_length }

\* C12: a call whose conditioning is projected without error reaches the
\* final division cond_final /= out_count_final, and when it runs every
\* frame index in [0, x.size(0)) has a usage count of at least 1.
C12_DivisionRunsOnPositiveCounts ==
    (SlEnded /\ sl.exc # "ValueError") =>
        /\ sl.divided
        /\ \A f \in 1..sl.x_size : sl.out_count_final[f] >= 1

\* C13: when the window loop is over, the usage count of each frame equals
\* the number of windows that contain it and one output per such window was
\* added for the frame; with 16 frames, windows of 8 and an overlap of 2,
\* frames 6, 7, 12, 13 have count 2 and every other frame count 1.
C13_CountIsNumberOfWindows ==
    (SlEnded /\ sl.exc # "ValueError") =>
        \A f \in 1..sl.x_size :
           /\ sl.out_count_final[f] = Cardinality(WindowsContaining(f))
           /\ Len(sl.accumulated[f]) = Cardinality(WindowsContaining(f))
           /\ (ADGS.video_length = 16 /\ ADGS.context_frames = Some(8)
                  /\ ADGS.context_overlap = Some(2) /\ ~ADGS.closed_loop)
                 => sl.out_count_final[f] =
                        IF (f - 1) \in {6, 7, 12, 13} THEN 2 ELSE 1

(***************************************************************************)
(* Claims about get_resized_cond (specification SpecProject)               *)
(***************************************************************************)
\* the lists get_resized_cond has returned so far, each with its input
Projections ==
    (IF sl.phase \in {"cond_done", "projected"}
     THEN { [ cond_in |-> sl.cond, resized |-> sl.sub_cond ] } ELSE {})
    \cup
    (IF sl.phase = "projected" /\ ~sl.uncond_none
     THEN { [ cond_in |-> sl.uncond, resized |-> sl.sub_uncond ] } ELSE {})

\* v0 is a value the projection must hand over as it is
NotPerFrame(v0) ==
    \/ v0.kind \in {"tensor", "wrapped"} /\ Len(v0.rows) # sl.x_size
    \/ v0.kind = "opaque"
PerFrame(v0) == v0.kind \in {"tensor", "wrapped"} /\ Len(v0.rows) = sl.x_size

\* C14: get_resized_cond returns as the identical object every tensor
\* (top-level, nested in a dict, or wrapped) whose leading size differs from
\* x.size(0) and every value that is no tensor, control or dict; the input
\* entries and their nested dicts are not modified, only copies are written.
C14_NonPerFrameFieldsPassThrough ==
    /\ sl.phase # "unused" => \A id \in DOMAIN sl.heap0 : sl.heap[id] = sl.heap0[id]
    /\ \A p \in Projections :
         /\ Len(p.resized) = Len(p.cond_in)
         /\ \A i \in DOMAIN p.cond_in :
              LET src == sl.heap0[p.cond_in[i]]
                  out == sl.heap[p.resized[i]]
              IN  /\ p.resized[i] \notin DOMAIN sl.heap0
                  /\ DOMAIN out = DOMAIN src
                  /\ \A key \in DOMAIN src :
                       /\ NotPerFrame(src[key]) => out[key] = src[key]
                       /\ src[key].kind = "dict" =>
                            /\ out[key].kind = "dict"
                            /\ out[key].id \notin DOMAIN sl.heap0
                            /\ DOMAIN sl.heap[out[key].id] = DOMAIN sl.heap0[src[key].id]
                            /\ \A nk \in DOMAIN sl.heap0[src[key].id] :
                                 LET nv0 == sl.heap0[src[key].id][nk]
                                 IN  NotPerFrame(nv0) =>
                                        sl.heap[out[key].id][nk] = nv0

\* cond and uncond were projected; the top-level tensor and the wrapped
\* tensor of the conditioned entry are not per-frame, a nested one is
C14_Witness ==
    /\ sl.phase = "projected" /\ ~sl.uncond_none
    /\ sl.axes_factor = 2
    /\ Len(sl.heap0[1]["pooled_output"].rows) # sl.x_size
    /\ Len(sl.heap0[2]["c_crossattn"].rows) = sl.x_size
    /\ sl.heap[sl.sub_cond[1]]["pooled_output"] = sl.heap0[1]["pooled_output"]
    /\ sl.heap[sl.heap[sl.sub_cond[1]]["model_conds"].id]["y"] = sl.heap0[2]["y"]

\* rows is the gather of the rows of v0 at full_idxs, in that order
IsGather(rows, v0) ==
    /\ Len(rows) = Len(sl.full_idxs)
    /\ \A j \in DOMAIN sl.full_idxs : rows[j] = v0.rows[sl.full_idxs[j] + 1]

\* C15: for every per-frame tensor field (top-level, nested or wrapped) and
\* every index list full_idxs, the projected field is a new tensor with
\* len(full_idxs) rows whose row j is the original row full_idxs[j].
C15_PerFrameRowsGathered ==
    \A p \in Projections :
       \A i \in DOMAIN p.cond_in :
          LET src == sl.heap0[p.cond_in[i]]
              out == sl.heap[p.resized[i]]
          IN  \A key \in DOMAIN src :
                /\ PerFrame(src[key]) =>
                     /\ out[key].kind = src[key].kind
                     /\ IsGather(out[key].rows, src[key])
                /\ src[key].kind = "dict" =>
                     \A nk \in DOMAIN sl.heap0[src[key].id] :
                        LET nv0 == sl.heap0[src[key].id][nk]
                            nv == sl.heap[out[key].id][nk]
                        IN  PerFrame(nv0) =>
                               /\ nv.kind = nv0.kind
                               /\ IsGather(nv.rows, nv0)

\* a tensor of 16 rows was projected onto the indexes 0, 1, 2, 6, 7
C15_Witness ==
    /\ sl.phase = "projected"
    /\ sl.x_size = 16
    /\ sl.full_idxs = <<0, 1, 2, 6, 7>>
    /\ sl.heap0[1]["pooled_output"].rows = [i \in 1..16 |-> 1100 + i - 1]
    /\ sl.heap[sl.sub_cond[1]]["pooled_output"].rows
          = <<1100, 1101, 1102, 1106, 1107>>

\* C20: for a window W and a batch of k * video_length frames, full_idxs is
\* the list of video_length * n + i for n in 0..k-1 and i in W in window
\* order; every index is in [0, x.size(0)), and the copy of frame i in
\* repeat n is selected if and only if i is in W.
C20_ExpandedIndexes ==
    sl.phase \in {"expanded", "cond_done", "projected"} =>
        LET W == sl.ctx_idxs
            k == sl.axes_factor
            vl == ADGS.video_length
        IN  /\ Len(sl.full_idxs) = k * Len(W)
            /\ \A n \in 0..(k - 1) : \A i \in DOMAIN W :
                  sl.full_idxs[n * Len(W) + i] = vl * n + W[i]
            /\ \A j \in DOMAIN sl.full_idxs :
                  sl.full_idxs[j] >= 0 /\ sl.full_idxs[j] < sl.x_size
            /\ \A n \in 0..(k - 1) : \A i \in 0..(vl - 1) :
                  (vl * n + i \in Range(sl.full_idxs)) <=> (i \in Range(W))
            /\ Range(W) = 0..(vl - 1) => Range(sl.full_idxs) = 0..(sl.x_size - 1)

\* the window 2, 0 of a video of 3 frames repeated twice
C20_Witness ==
    /\ sl.phase = "expanded"
    /\ ADGS.video_length = 3 /\ sl.axes_factor = 2
    /\ sl.ctx_idxs = <<2, 0>>
    /\ sl.full_idxs = <<2, 0, 5, 3>>

(***************************************************************************)
(* Claims about the control objects (specification SpecSliding)            *)
(***************************************************************************)
\* the control objects reachable from control c through previous_controlnet
RECURSIVE Chain(_, _)
Chain(ctl, c) ==
    IF c = 0 THEN {} ELSE {c} \cup Chain(ctl, ctl[c].previous_controlnet)

\* the control objects of the entries ids of heap h
ControlsOf(h, ids) ==
    { h[ids[i]]["control"].id : i \in { j \in DOMAIN ids : "control" \in DOMAIN h[ids[j]] } }

\* C16: when calc_cond_uncond_batch is called for a window, every control
\* reachable through previous_controlnet from the control of an entry of
\* sub_cond or sub_uncond holds the window's full_idxs in sub_idxs,
\* ADGS.video_length in full_latent_length and ADGS.context_frames in
\* context_length, and the entry holds the control object it was given.
C16_ControlsHoldWindowScope ==
    sl.phase # "unused" =>
        \A n \in DOMAIN sl.calls :
           LET call == sl.calls[n]
               heads == ControlsOf(call.heap, call.sub_cond)
                           \cup ControlsOf(call.heap, call.sub_uncond)
           IN  /\ \A h \in heads : \A c \in Chain(call.ctl, h) :
                     /\ call.ctl[c].sub_idxs = Some(call.full_idxs)
                     /\ call.ctl[c].full_latent_length = Some(ADGS.video_length)
                     /\ call.ctl[c].context_length = ADGS.context_frames
               /\ \A i \in DOMAIN call.sub_cond :
                     "control" \in DOMAIN sl.heap0[sl.cond[i]] =>
                        call.heap[call.sub_cond[i]]["control"]
                            = sl.heap0[sl.cond[i]]["control"]
               /\ \A i \in DOMAIN call.sub_uncond :
                     "control" \in DOMAIN sl.heap0[sl.uncond[i]] =>
                        call.heap[call.sub_uncond[i]]["control"]
                            = sl.heap0[sl.uncond[i]]["control"]

\* calc_cond_uncond_batch was called on a video repeated twice with a chain
\* of two controls on the conditioned entry and a third control on the
\* unconditioned one
C16_Witness ==
    /\ sl.phase = "raised" /\ Len(sl.calls) = 1
    /\ sl.axes_factor = 2
    /\ sl.ctl0[1].previous_controlnet = 2
    /\ ControlsOf(sl.heap, sl.sub_uncond) = {3}
    /\ sl.ctl[2].sub_idxs = Some(sl.full_idxs)
    /\ sl.ctl[3].sub_idxs = Some(sl.full_idxs)

\* a control of the entries ids lacks the window-scope attributes
LacksWindowScope(ids) ==
    \E c \in ControlsOf(sl.heap0, ids) :
       sl.ctl0[c].attrs \cap {"sub_idxs", "full_latent_length", "context_length"} = {}

\* C17: when the control of a conditioning entry lacks the window-scope
\* attributes, the projection raises ValueError before
\* calc_cond_uncond_batch is called for the window, and the call of
\* sliding_calc_cond_uncond_batch ends with that error.
C17_UnsupportedControlRaises ==
    sl.phase # "unused" =>
        /\ (LacksWindowScope(sl.cond)
               /\ sl.phase \notin {"input", "loop", "expanded"})
             => (sl.phase = "raised" /\ sl.exc = "ValueError" /\ sl.calls = <<>>)
        /\ (~sl.uncond_none /\ LacksWindowScope(sl.uncond)
               /\ sl.phase \notin {"input", "loop", "expanded", "cond_done"})
             => (sl.phase = "raised" /\ sl.exc = "ValueError" /\ sl.calls = <<>>)
        /\ sl.exc = "ValueError" => (sl.phase = "raised" /\ sl.calls = <<>>)

\* the projection of uncond raised after cond was projected
C17_Witness ==
    /\ sl.phase = "raised" /\ sl.exc = "ValueError"
    /\ sl.sub_cond # <<>>
    /\ ~LacksWindowScope(sl.cond) /\ LacksWindowScope(sl.uncond)
    /\ sl.calls = <<>>

(***************************************************************************)
(* Claims about the step tally of a run (specification Spec)               *)
(***************************************************************************)
\* C18: while the wrapped sampler runs a denoising step, ADGS.total_steps,
\* the total_steps the sliding path hands to the context scheduler, is the
\* number of denoising steps of the run, the total_steps the host reports
\* to the step callback.
C18_TotalStepsIsRunTotal ==
    (pc = "sampling" /\ ssf.called) => ADGS.total_steps = host.total

\* C19: during a run ADGS.current_step is start_step before the first step
\* callback and start_step + s + 1 after the callback for step s; the
\* host's own callback, when there is one, was called once per step, with
\* the arguments of the wrapped callback and before ADGS was updated; the
\* sampling function called for the k-th denoising step reads
\* current_step = start_step + k.
C19_CurrentStepTally ==
    pc = "sampling" =>
        /\ ADGS.start_step = OrZero(lv.start_step)
        /\ ADGS.current_step = ADGS.start_step + host.step
        /\ lv.original_callback = "None" =>
              (host.callback_calls = 0 /\ host.last_callback = NoCallbackCall)
        /\ lv.original_callback # "None" =>
              /\ host.callback_calls = host.step
              /\ host.step > 0 =>
                    host.last_callback =
                        [ step |-> host.step - 1, total_steps |-> host.total,
                          current_step |-> ADGS.start_step + host.step - 1 ]
        /\ (ssf.called /\ host.phase = "callback") =>
              ssf.current_step = ADGS.start_step + host.step

\* a run that starts at step 1 with a callback of the host has made its
\* second step callback and denoised once more
C19_Witness ==
    /\ pc = "sampling"
    /\ lv.start_step = Some(1)
    /\ lv.original_callback # "None"
    /\ host.step = 2 /\ host.callback_calls = 2
    /\ ADGS.current_step = 3
    /\ host.last_callback.step = 1

(***************************************************************************)
(* Claims about what calc_cond_uncond_batch returns (specification         *)
(* SpecBatch)                                                              *)
(***************************************************************************)

\* C21: for every input the call of calc_cond_uncond_batch ends by returning
\* the pair (out_cond, out_uncond), after the divisions of lines 451-454 by
\* the strictly positive count buffers; when the request lists are empty or
\* every request is time-gated out, the pair is returned with nothing added
\* to the buffers (both all zeros).
C21_AlwaysReturnsPair ==
    CcEnded =>
        /\ cc.phase = "returned"
        /\ cc.l.result = "(out_cond, out_uncond)"
        /\ (cc.l.requests = <<>> => cc.l.adds = <<>>)

(***************************************************************************)
(* Claims about the blend multiplier (specification SpecMult)              *)
(***************************************************************************)
FmEnded == fm.phase = "done"

\* the factor of the ramp at distance d from an edge
RampFactor(d) == IF d < 8 THEN Frac(d + 1, 8) ELSE Frac(1, 1)

\* the edges of the tile that are strictly interior to the canvas, with the
\* distance of a cell from each
InteriorEdges ==
    (IF fm.area[3] # 0 THEN {"top"} ELSE {})
    \cup (IF fm.area[1] + fm.area[3] < fm.x_shape[3] THEN {"bottom"} ELSE {})
    \cup (IF fm.area[4] # 0 THEN {"left"} ELSE {})
    \cup (IF fm.area[2] + fm.area[4] < fm.x_shape[4] THEN {"right"} ELSE {})

Distance(edge, cell) ==
    CASE edge = "top" -> cell[1]
      [] edge = "bottom" -> fm.shape[1] - 1 - cell[1]
      [] edge = "left" -> cell[2]
      [] edge = "right" -> fm.shape[2] - 1 - cell[2]

EdgeFactor(edge, cell) ==
    IF edge \in InteriorEdges THEN RampFactor(Distance(edge, cell))
    ELSE Frac(1, 1)

\* strength times one ramp factor per interior edge
RampedStrength(cell) ==
    LET strength == IF fm.conds.strength # IntNone THEN fm.conds.strength[1]
                    ELSE 1
        t == EdgeFactor("top", cell)
        b == EdgeFactor("bottom", cell)
        l == EdgeFactor("left", cell)
        r == EdgeFactor("right", cell)
    IN  Frac(strength * t.num * b.num * l.num * r.num,
             t.den * b.den * l.den * r.den)

\* C22: without a mask the multiplier of every cell of the tile is strength
\* times one ramp factor per edge of the tile strictly interior to the
\* canvas, (d+1)/8 at distance d in 0..7 from the edge and 1 from distance 8
\* on, for every tile size; with a mask it is mask * mask_strength *
\* strength, with no ramp.
C22_OneRampFactorPerInteriorEdge ==
    FmEnded =>
        \A cell \in DOMAIN fm.mult :
           IF fm.conds.mask = "None"
           THEN SameValue(fm.mult[cell], RampedStrength(cell))
           ELSE SameValue(fm.mult[cell],
                          Frac(mask_at(fm.conds.mask, fm.x_shape,
                                       fm.area[3] + cell[1], fm.area[4] + cell[2])
                                 * (IF fm.conds.mask_strength # IntNone
                                    THEN fm.conds.mask_strength[1] ELSE 1)
                                 * (IF fm.conds.strength # IntNone
                                    THEN fm.conds.strength[1] ELSE 1), 1))

(***************************************************************************)
(* Claims about the batches of calc_cond_uncond_batch (specification       *)
(* SpecBatch)                                                              *)
(***************************************************************************)
\* the request (input_x, mult, conditionning, area, control, patches) that
\* lines 351/358 built for the entry of index id
RequestOf(id) ==
    get_area_and_mult((cc.cond \o (IF cc.uncond_none THEN <<>> ELSE cc.uncond))[id],
                      cc.x_shape, cc.timestep, id)[1]

\* the denoising calls of lines 426/430, one per batch
BatchCalls == { k \in DOMAIN cc.l.calls : cc.l.calls[k].line \in {426, 430} }

\* C23: every batch is homogeneous: all its requests have the same input
\* shape, the identical control (or none) and the identical patches object
\* (or none), and the control and patches handed to the denoising call
\* (those of the last request popped) are the ones of every request of the
\* batch.
C23_BatchesAreHomogeneous ==
    \A k \in BatchCalls :
       LET call == cc.l.calls[k] IN
       \A i \in Range(call.input) :
          /\ RequestOf(i).control = call.control
          /\ RequestOf(i).patches = call.patches
          /\ \A j \in Range(call.input) :
                /\ RequestOf(i).input_x = RequestOf(j).input_x
                /\ RequestOf(i).control = RequestOf(j).control
                /\ RequestOf(i).patches = RequestOf(j).patches

\* a call was given two entries with the same control and ran them as one
\* batch with that control
C23_Witness ==
    \E k \in BatchCalls :
       /\ Len(cc.l.calls[k].input) = 2
       /\ cc.l.calls[k].control = "control_1"
       /\ \A i \in Range(cc.l.calls[k].input) : RequestOf(i).control = "control_1"

(***************************************************************************)
(* Claims about a model without injected params (specification Spec)       *)
(***************************************************************************)
NotInjectedCallEnded ==
    pc = "idle" /\ ~obs.injected /\ obs.outcome \in {"returned", "raised"}

\* C24: a call of animatediff_sample on a model without injected params
\* calls the original sample function exactly once, with the arguments it
\* was given (the callback in kwargs is not wrapped), returns what that call
\* returned, and leaves ADGS and the five patchable references as they were.
C24_NotInjectedPassesThrough ==
    NotInjectedCallEnded =>
        /\ host.orig_sample_calls = obs.not_injected.pre_calls + 1
        /\ obs.not_injected.passed = obs.not_injected.given
        /\ obs.not_injected.passed.callback # "ad_callback"
        /\ obs.not_injected.result = obs.not_injected.host_result
        /\ (obs.outcome = "returned") = (obs.not_injected.host_result = "samples")
        /\ refs = obs.pre_refs
        /\ ADGS = obs.not_injected.pre_ADGS

\* a call with a callback of the host, made while the references are still
\* patched by an earlier failed run on an injected model, has returned
C24_Witness ==
    /\ NotInjectedCallEnded
    /\ obs.outcome = "returned"
    /\ obs.not_injected.given.callback = "host_callback"
    /\ obs.pre_refs # HostRefs
    /\ host.runs = 2

====
